---- MODULE Spec2Model ----
(***************************************************************************)
(* Safety and confirmation subsystem of the MSSQL MCP server:              *)
(* the ConfirmationStore (single-use, expiring confirmation tokens bound   *)
(* to a query and a parameter object), the canonical parameter             *)
(* serialisation it hashes, and the request flow of the destructive tools  *)
(* that consult it.                                                        *)
(***************************************************************************)
EXTENDS Integers, Sequences, FiniteSets, TLC

(***************************************************************************)
(* Bounds of the model.                                                    *)
(***************************************************************************)
\* Number of confirmation tokens the store issues in one behaviour of Spec.
MaxTokens == 2
\* Largest value of the clock (Date.now(), in the model's time unit).
MaxNow == 3
\* The configured time-to-live of a token (this.ttlMs), in the same unit.
\* The constructor takes it from its argument or DRY_RUN_TTL_SECONDS.
ttlMs == 1

(***************************************************************************)
(* JavaScript values that reach canonicalStringify.                        *)
(* An object is the sequence of its own enumerable properties in           *)
(* insertion order, which is the order Object.keys and JSON.stringify use  *)
(* for non-integer keys.                                                   *)
(***************************************************************************)
Null == [t |-> "null"]
Undefined == [t |-> "undefined"]
Num(n) == [t |-> "number", n |-> n]
\* A number that is not finite (JSON.parse("1e999") is Infinity).
Infinity == [t |-> "number", nonFinite |-> TRUE]
Str(s) == [t |-> "string", s |-> s]
Arr(items) == [t |-> "array", items |-> items]
Obj(props) == [t |-> "object", props |-> props]

IsFinite(v) == v.t = "number" /\ "n" \in DOMAIN v

\* Property names of the model in the order String.prototype comparison
\* (UTF-16 code units) puts them, the order Array.prototype.sort() uses.
CodeUnitOrder == <<"a", "b", "data", "parameters", "procedureName",
                   "tableName", "updates", "whereClause">>

KeyRank(k) == CHOOSE i \in 1..Len(CodeUnitOrder) : CodeUnitOrder[i] = k

\* Array.prototype.sort() on an array of distinct property names.
\* (Here and in the other recursive operators on values the body is a
\* function of the argument, so that the argument is evaluated once per call
\* and not once per use.)
RECURSIVE SortStrings(_)
SortStrings(keys) ==
  LET sorted[ks \in {keys}] ==
        IF ks = {} THEN <<>>
        ELSE LET least == CHOOSE k \in ks :
                            \A other \in ks : KeyRank(k) <= KeyRank(other)
             IN  <<least>> \o SortStrings(ks \ {least})
  IN  sorted[keys]

\* Object.keys(value): the property names, in insertion order.
ObjectKeys(value) == [i \in 1..Len(value.props) |-> value.props[i][1]]

\* value[key] for an own property.
Get(value, key) ==
  LET i == CHOOSE j \in 1..Len(value.props) : value.props[j][1] = key
  IN  value.props[i][2]

Range(s) == {s[i] : i \in 1..Len(s)}

\* sortKeys that sorts the keys of the outermost object only.
sortKeysShallow(value) ==
  IF value = Null \/ value = Undefined THEN value
  ELSE IF value.t = "object"
    THEN LET keys == SortStrings(Range(ObjectKeys(value)))
         IN  Obj([i \in 1..Len(keys) |-> <<keys[i], Get(value, keys[i])>>])
  ELSE value

\* sortKeys: rebuild every object with its keys in sorted order.
RECURSIVE sortKeys(_)
sortKeys(value) ==
  LET sorted[v \in {value}] ==
        IF v = Null \/ v = Undefined THEN v
        ELSE IF v.t = "array"
          THEN Arr([i \in 1..Len(v.items) |-> sortKeys(v.items[i])])
        ELSE IF v.t = "object"
          THEN LET keys == SortStrings(Range(ObjectKeys(v)))
               IN  Obj([i \in 1..Len(keys) |->
                          <<keys[i], sortKeys(Get(v, keys[i]))>>])
        ELSE v
  IN  sorted[value]

\* Join the strings of a sequence with commas.
RECURSIVE JoinComma(_)
JoinComma(parts) ==
  LET joined[ps \in {parts}] ==
        IF ps = <<>> THEN ""
        ELSE IF Len(ps) = 1 THEN ps[1]
        ELSE ps[1] \o "," \o JoinComma(Tail(ps))
  IN  joined[parts]

\* JSON.stringify of a value nested in an array or object, or of a top-level
\* value other than undefined: a number that is not finite is written null,
\* an undefined array element is written null, and a property whose value is
\* undefined is left out.
RECURSIVE JSONstringify(_)
JSONstringify(value) ==
  LET text[v \in {value}] ==
        IF v = Null THEN "null"
        ELSE IF v = Undefined THEN "null"
        ELSE IF v.t = "number"
          THEN (IF IsFinite(v) THEN ToString(v.n) ELSE "null")
        ELSE IF v.t = "string" THEN "\"" \o v.s \o "\""
        ELSE IF v.t = "array"
          THEN "[" \o JoinComma([i \in 1..Len(v.items) |->
                                   JSONstringify(v.items[i])]) \o "]"
        ELSE LET kept == SelectSeq(v.props, LAMBDA p : p[2] # Undefined)
             IN  "{" \o JoinComma([i \in 1..Len(kept) |->
                         "\"" \o kept[i][1] \o "\":" \o JSONstringify(kept[i][2])])
                     \o "}"
  IN  text[value]

canonicalStringify(value) == JSONstringify(sortKeys(value))

\* SHA-256 as a collision-free digest: the digest names its input.
hashString(value) == <<"sha256", value>>

(***************************************************************************)
(* ConfirmationStore.                                                      *)
(***************************************************************************)
MAX_PENDING == 100

\* Reasons validate returns.
ReasonNotFound == "Token not found or already expired."
ReasonUsed == "Token has already been used."
ReasonExpired == "Token has expired."
ReasonQuery == "Query does not match the original preview."
ReasonParams == "Parameters do not match the original preview."
NoReason == ""

VARIABLES
  pending,     \* the Map token -> PendingOperation, as its entries in insertion order
  now,         \* Date.now()
  nextToken,   \* the tokens randomUUID has returned so far are 1..nextToken-1
  issued,      \* history: per issued token, the arguments of its create call and
               \* what the validate calls carrying it have returned so far
  ret          \* the last call of the store's public API and what it returned

storeVars == <<pending, now, nextToken, issued, ret>>

\* Index of the entry stored under a token, 0 if there is none (Map.get).
IndexOf(entries, token) ==
  IF \E i \in 1..Len(entries) : entries[i].token = token
  THEN CHOOSE i \in 1..Len(entries) : entries[i].token = token
  ELSE 0

\* Map.delete(token).
MapDelete(entries, token) == SelectSeq(entries, LAMBDA e : e.token # token)

IsPending(token) == IndexOf(pending, token) # 0

\* The sort with its comparator reversed, (a, b) => b.createdAt - a.createdAt:
\* newest first.
SortByCreatedAtDescending(entries) ==
  LET n == Len(entries)
      Before(k, i) ==
        \/ entries[k].createdAt > entries[i].createdAt
        \/ entries[k].createdAt = entries[i].createdAt /\ k < i
      Rank(i) == Cardinality({k \in 1..n : Before(k, i)}) + 1
  IN  [p \in 1..n |-> entries[CHOOSE i \in 1..n : Rank(i) = p]]

\* [...entries].sort((a, b) => a.createdAt - b.createdAt): a stable sort, so
\* entries created at the same instant keep their insertion order.
SortByCreatedAt(entries) ==
  LET n == Len(entries)
      Before(k, i) ==
        \/ entries[k].createdAt < entries[i].createdAt
        \/ entries[k].createdAt = entries[i].createdAt /\ k < i
      Rank(i) == Cardinality({k \in 1..n : Before(k, i)}) + 1
  IN  [p \in 1..n |-> entries[CHOOSE i \in 1..n : Rank(i) = p]]

\* cleanup() with the expiry test now - createdAt >= ttlMs: an entry whose
\* age equals the time-to-live is dropped.
cleanupExpiresAtTtl(entries, time) ==
  LET live == SelectSeq(entries, LAMBDA e : ~(time - e.createdAt >= ttlMs))
  IN  IF Len(live) > MAX_PENDING
      THEN LET sorted == SortByCreatedAt(live)
               excess == Len(sorted) - MAX_PENDING
               evicted == {sorted[i].token : i \in 1..excess}
           IN  SelectSeq(live, LAMBDA e : e.token \notin evicted)
      ELSE live

\* cleanup(): drop the expired entries, then, if more than MAX_PENDING are
\* left, drop the oldest-created ones down to MAX_PENDING.
cleanup(entries, time) ==
  LET live == SelectSeq(entries, LAMBDA e : ~(time - e.createdAt > ttlMs))
  IN  IF Len(live) > MAX_PENDING
      THEN LET sorted == SortByCreatedAt(live)
               excess == Len(sorted) - MAX_PENDING
               evicted == {sorted[i].token : i \in 1..excess}
           IN  SelectSeq(live, LAMBDA e : e.token \notin evicted)
      ELSE live

\* The entry create() stores.
NewEntry(token, operationType, target, query, params, time) ==
  [token |-> token, operationType |-> operationType, target |-> target,
   queryHash |-> hashString(query),
   paramsHash |-> hashString(canonicalStringify(params)),
   createdAt |-> time, used |-> FALSE]

\* create() with the new entry inserted before cleanup runs.
createInsertsFirst(entries, token, operationType, target, query, params, time) ==
  cleanup(Append(entries,
                 NewEntry(token, operationType, target, query, params, time)),
          time)

\* create(): cleanup first, then insert the new entry.
create(entries, token, operationType, target, query, params, time) ==
  Append(cleanup(entries, time),
         NewEntry(token, operationType, target, query, params, time))

\* validate() without the removal of the entry on success.
validateKeepsOnSuccess(entries, token, query, params, time) ==
  LET i == IndexOf(entries, token)
      removed == MapDelete(entries, token)
  IN  IF i = 0
        THEN [valid |-> FALSE, reason |-> ReasonNotFound, entries |-> entries]
      ELSE IF entries[i].used
        THEN [valid |-> FALSE, reason |-> ReasonUsed, entries |-> removed]
      ELSE IF time - entries[i].createdAt > ttlMs
        THEN [valid |-> FALSE, reason |-> ReasonExpired, entries |-> removed]
      ELSE IF hashString(query) # entries[i].queryHash
        THEN [valid |-> FALSE, reason |-> ReasonQuery, entries |-> removed]
      ELSE IF hashString(canonicalStringify(params)) # entries[i].paramsHash
        THEN [valid |-> FALSE, reason |-> ReasonParams, entries |-> removed]
      ELSE [valid |-> TRUE, reason |-> NoReason, entries |-> entries]

\* validate() without the expiry test.
validateNoExpiry(entries, token, query, params, time) ==
  LET i == IndexOf(entries, token)
      removed == MapDelete(entries, token)
  IN  IF i = 0
        THEN [valid |-> FALSE, reason |-> ReasonNotFound, entries |-> entries]
      ELSE IF entries[i].used
        THEN [valid |-> FALSE, reason |-> ReasonUsed, entries |-> removed]
      ELSE IF hashString(query) # entries[i].queryHash
        THEN [valid |-> FALSE, reason |-> ReasonQuery, entries |-> removed]
      ELSE IF hashString(canonicalStringify(params)) # entries[i].paramsHash
        THEN [valid |-> FALSE, reason |-> ReasonParams, entries |-> removed]
      ELSE [valid |-> TRUE, reason |-> NoReason, entries |-> removed]

\* validate() without the query comparison.
validateNoQueryCheck(entries, token, query, params, time) ==
  LET i == IndexOf(entries, token)
      removed == MapDelete(entries, token)
  IN  IF i = 0
        THEN [valid |-> FALSE, reason |-> ReasonNotFound, entries |-> entries]
      ELSE IF entries[i].used
        THEN [valid |-> FALSE, reason |-> ReasonUsed, entries |-> removed]
      ELSE IF time - entries[i].createdAt > ttlMs
        THEN [valid |-> FALSE, reason |-> ReasonExpired, entries |-> removed]
      ELSE IF hashString(canonicalStringify(params)) # entries[i].paramsHash
        THEN [valid |-> FALSE, reason |-> ReasonParams, entries |-> removed]
      ELSE [valid |-> TRUE, reason |-> NoReason, entries |-> removed]

\* validate() that leaves the entry in place when a comparison fails.
validateKeepsOnMismatch(entries, token, query, params, time) ==
  LET i == IndexOf(entries, token)
      removed == MapDelete(entries, token)
  IN  IF i = 0
        THEN [valid |-> FALSE, reason |-> ReasonNotFound, entries |-> entries]
      ELSE IF entries[i].used
        THEN [valid |-> FALSE, reason |-> ReasonUsed, entries |-> removed]
      ELSE IF time - entries[i].createdAt > ttlMs
        THEN [valid |-> FALSE, reason |-> ReasonExpired, entries |-> removed]
      ELSE IF hashString(query) # entries[i].queryHash
        THEN [valid |-> FALSE, reason |-> ReasonQuery, entries |-> entries]
      ELSE IF hashString(canonicalStringify(params)) # entries[i].paramsHash
        THEN [valid |-> FALSE, reason |-> ReasonParams, entries |-> entries]
      ELSE [valid |-> TRUE, reason |-> NoReason, entries |-> removed]

\* validate() that marks the entry used on success and leaves it in the map.
validateMarksUsed(entries, token, query, params, time) ==
  LET i == IndexOf(entries, token)
      removed == MapDelete(entries, token)
  IN  IF i = 0
        THEN [valid |-> FALSE, reason |-> ReasonNotFound, entries |-> entries]
      ELSE IF entries[i].used
        THEN [valid |-> FALSE, reason |-> ReasonUsed, entries |-> removed]
      ELSE IF time - entries[i].createdAt > ttlMs
        THEN [valid |-> FALSE, reason |-> ReasonExpired, entries |-> removed]
      ELSE IF hashString(query) # entries[i].queryHash
        THEN [valid |-> FALSE, reason |-> ReasonQuery, entries |-> removed]
      ELSE IF hashString(canonicalStringify(params)) # entries[i].paramsHash
        THEN [valid |-> FALSE, reason |-> ReasonParams, entries |-> removed]
      ELSE [valid |-> TRUE, reason |-> NoReason,
            entries |-> [entries EXCEPT ![i].used = TRUE]]

\* validate(): the result and the reason of a call, and the entries after it.
validate(entries, token, query, params, time) ==
  LET i == IndexOf(entries, token)
      removed == MapDelete(entries, token)
  IN  IF i = 0
        THEN [valid |-> FALSE, reason |-> ReasonNotFound, entries |-> entries]
      ELSE IF entries[i].used
        THEN [valid |-> FALSE, reason |-> ReasonUsed, entries |-> removed]
      ELSE IF time - entries[i].createdAt > ttlMs
        THEN [valid |-> FALSE, reason |-> ReasonExpired, entries |-> removed]
      ELSE IF hashString(query) # entries[i].queryHash
        THEN [valid |-> FALSE, reason |-> ReasonQuery, entries |-> removed]
      ELSE IF hashString(canonicalStringify(params)) # entries[i].paramsHash
        THEN [valid |-> FALSE, reason |-> ReasonParams, entries |-> removed]
      ELSE [valid |-> TRUE, reason |-> NoReason, entries |-> removed]

\* History kept per issued token.
NewHistory(query, params, time) ==
  [query |-> query, params |-> params, createdAt |-> time,
   touched |-> FALSE, \* a validate call carrying the token has been made
   okCount |-> 0,     \* how many of them returned valid=true
   burned |-> FALSE]  \* one of them failed on expiry or a mismatch

Issued == 1..(nextToken - 1)

RecordValidate(hist, token, result) ==
  IF token \notin DOMAIN hist THEN hist
  ELSE [hist EXCEPT
          ![token].touched = TRUE,
          ![token].okCount = IF result.valid THEN @ + 1 ELSE @,
          ![token].burned = @ \/ result.reason \in
                                   {ReasonExpired, ReasonQuery, ReasonParams}]

\* A call of confirmationStore.create.
Create(operationType, target, query, params) ==
  /\ pending' = create(pending, nextToken, operationType, target, query,
                       params, now)
  /\ nextToken' = nextToken + 1
  /\ issued' = [t \in Issued \cup {nextToken} |->
                  IF t = nextToken THEN NewHistory(query, params, now)
                  ELSE issued[t]]
  /\ ret' = [op |-> "create", token |-> nextToken, query |-> query,
             params |-> params, valid |-> TRUE, reason |-> NoReason,
             wasPending |-> FALSE, expired |-> FALSE, first |-> FALSE]
  /\ UNCHANGED now

\* A call of confirmationStore.validate.
Validate(token, query, params) ==
  LET result == validate(pending, token, query, params, now)
  IN  /\ pending' = result.entries
      /\ issued' = RecordValidate(issued, token, result)
      /\ ret' = [op |-> "validate", token |-> token, query |-> query,
                 params |-> params, valid |-> result.valid,
                 reason |-> result.reason,
                 wasPending |-> IsPending(token),
                 expired |-> token \in Issued /\
                             now - issued[token].createdAt > ttlMs,
                 first |-> token \in Issued /\ ~issued[token].touched]
      /\ UNCHANGED <<now, nextToken>>

\* Time passes.
Tick ==
  /\ now < MaxNow
  /\ now' = now + 1
  /\ UNCHANGED <<pending, nextToken, issued, ret>>

StoreInit ==
  /\ pending = <<>>
  /\ now = 0
  /\ nextToken = 1
  /\ issued = <<>>
  /\ ret = [op |-> "none", token |-> 0, query |-> "", params |-> Obj(<<>>),
            valid |-> FALSE, reason |-> NoReason, wasPending |-> FALSE,
            expired |-> FALSE, first |-> FALSE]

(***************************************************************************)
(* SafetyConfig.                                                           *)
(***************************************************************************)
isDropAllowed(cfg) == cfg.allowDangerousOperations

\* requiresApproval without its DELETE case reading the flag.
requiresApprovalNoDelete(operationType, cfg) ==
  CASE operationType = "CREATE" -> cfg.requireApprovalForCreate
    [] operationType = "UPDATE" -> cfg.requireApprovalForUpdate
    [] operationType = "INSERT" -> cfg.requireApprovalForInsert
    [] operationType \in {"READ", "EXEC", "DELETE"} -> FALSE
    [] OTHER -> TRUE

\* requiresApproval without its EXEC case: exec falls to the default.
requiresApprovalExecDefault(operationType, cfg) ==
  CASE operationType = "CREATE" -> cfg.requireApprovalForCreate
    [] operationType = "UPDATE" -> cfg.requireApprovalForUpdate
    [] operationType = "DELETE" -> cfg.requireApprovalForDelete
    [] operationType = "INSERT" -> cfg.requireApprovalForInsert
    [] operationType = "READ" -> FALSE
    [] OTHER -> TRUE

requiresApproval(operationType, cfg) ==
  CASE operationType = "CREATE" -> cfg.requireApprovalForCreate
    [] operationType = "UPDATE" -> cfg.requireApprovalForUpdate
    [] operationType = "DELETE" -> cfg.requireApprovalForDelete
    [] operationType = "INSERT" -> cfg.requireApprovalForInsert
    [] operationType = "READ" -> FALSE
    [] operationType = "EXEC" -> FALSE
    [] OTHER -> TRUE

\* getOperationSeverity as the comments of the OperationSeverity enum put
\* it: DELETE among the MEDIUM operations that modify data.
getOperationSeverityByEnumComment(operationType) ==
  CASE operationType = "DROP" -> "CRITICAL"
    [] operationType = "DELETE" -> "MEDIUM"
    [] operationType = "CREATE" -> "HIGH"
    [] operationType = "UPDATE" -> "MEDIUM"
    [] operationType = "EXEC" -> "MEDIUM"
    [] operationType = "INSERT" -> "LOW"
    [] operationType = "READ" -> "SAFE"
    [] OTHER -> "CRITICAL"

getOperationSeverity(operationType) ==
  CASE operationType = "DROP" -> "CRITICAL"
    [] operationType = "DELETE" -> "HIGH"
    [] operationType = "CREATE" -> "HIGH"
    [] operationType = "UPDATE" -> "MEDIUM"
    [] operationType = "EXEC" -> "MEDIUM"
    [] operationType = "INSERT" -> "LOW"
    [] operationType = "READ" -> "SAFE"
    [] OTHER -> "CRITICAL"

(***************************************************************************)
(* Version detection. A version string is the sequence of its maximal      *)
(* runs: a run of digits, a dot, or a run of other characters.             *)
(***************************************************************************)
\* The largest major version drawn and the largest number in a version
\* string.
MaxMajor == 17
MaxNumber == 2019

Digits(d) == [t |-> "num", digits |-> d]
Dot == [t |-> "dot"]
Text(s) == [t |-> "text", s |-> s]

\* parseInt(digits, 10): the number whose decimal numeral the run is, after
\* its leading zeros.
parseInt(digits) ==
  IF digits \in {"00", "000"} THEN 0
  ELSE CHOOSE n \in 0..MaxNumber : ToString(n) = digits

\* /(\d+)\.(\d+)\.(\d+)\.(\d+)/ matches from run i on: the leftmost match
\* starts at the first such run and each group takes a whole run.
VersionMatchAt(versionString, i) ==
  /\ i + 6 <= Len(versionString)
  /\ \A k \in {0, 2, 4, 6} : versionString[i + k].t = "num"
  /\ \A k \in {1, 3, 5} : versionString[i + k].t = "dot"

\* extractProductName(versionString)
extractProductName(versionString) ==
  LET named == {i \in 1..(Len(versionString) - 1) :
                  /\ versionString[i] = Text("Microsoft SQL Server ")
                  /\ versionString[i + 1].t = "num"
                  /\ versionString[i + 1].digits \in {"2016", "2019"}}
      starts == {i \in 1..Len(versionString) : VersionMatchAt(versionString, i)}
  IN  IF named # {}
      THEN "SQL Server " \o
           versionString[(CHOOSE i \in named : \A j \in named : i <= j) + 1].digits
      ELSE IF starts # {}
      THEN LET first == CHOOSE i \in starts : \A j \in starts : i <= j
               major == parseInt(versionString[first].digits)
           IN  CASE major = 16 -> "SQL Server 2022"
                 [] major = 15 -> "SQL Server 2019"
                 [] major = 14 -> "SQL Server 2017"
                 [] major = 13 -> "SQL Server 2016"
                 [] major = 12 -> "SQL Server 2014"
                 [] major = 11 -> "SQL Server 2012"
                 [] major = 10 -> "SQL Server 2008/2008 R2"
                 [] major = 9 -> "SQL Server 2005"
                 [] OTHER -> "SQL Server (version " \o ToString(major) \o ".x)"
      ELSE "SQL Server (unknown version)"

\* The baseline version both fallbacks use, under the product name given.
BaselineVersion(productName) ==
  [major |-> 10, minor |-> 0, build |-> 0, revision |-> 0,
   fullVersion |-> "10.0.0.0", productName |-> productName]

\* parseVersion that assumes the newest server when nothing matches.
parseVersionAssumesNewest(versionString) ==
  LET starts == {i \in 1..Len(versionString) : VersionMatchAt(versionString, i)}
      first == CHOOSE i \in starts : \A j \in starts : i <= j
  IN  IF starts # {}
      THEN [major |-> parseInt(versionString[first].digits),
            minor |-> parseInt(versionString[first + 2].digits),
            build |-> parseInt(versionString[first + 4].digits),
            revision |-> parseInt(versionString[first + 6].digits),
            fullVersion |->
              versionString[first].digits \o "." \o
              versionString[first + 2].digits \o "." \o
              versionString[first + 4].digits \o "." \o
              versionString[first + 6].digits,
            productName |-> extractProductName(versionString)]
      ELSE [BaselineVersion("SQL Server 2022 (assumed)") EXCEPT
              !.major = 16, !.fullVersion = "16.0.0.0"]

parseVersion(versionString) ==
  LET starts == {i \in 1..Len(versionString) : VersionMatchAt(versionString, i)}
      first == CHOOSE i \in starts : \A j \in starts : i <= j
  IN  IF starts # {}
      THEN [major |-> parseInt(versionString[first].digits),
            minor |-> parseInt(versionString[first + 2].digits),
            build |-> parseInt(versionString[first + 4].digits),
            revision |-> parseInt(versionString[first + 6].digits),
            fullVersion |->
              versionString[first].digits \o "." \o
              versionString[first + 2].digits \o "." \o
              versionString[first + 4].digits \o "." \o
              versionString[first + 6].digits,
            productName |-> extractProductName(versionString)]
      ELSE BaselineVersion("SQL Server 2008 (assumed)")

\* determineCapabilities with drop-if-exists only above major 13.
determineCapabilitiesAbove13(version) ==
  LET major == version.major
  IN  [version |-> version,
       supportsBasicFeatures |-> major >= 10,
       supportsSequences |-> major >= 11,
       supportsWindowFunctions |-> major >= 11,
       supportsColumnstoreIndexes |-> major >= 11,
       supportsOffset |-> major >= 11,
       supportsInMemoryOLTP |-> major >= 12,
       supportsDropIfExists |-> major > 13,
       supportsJson |-> major >= 13,
       supportsTemporal |-> major >= 13,
       supportsAlwaysEncrypted |-> major >= 13,
       supportsStringAgg |-> major >= 14,
       supportsGraphDb |-> major >= 14,
       supportsStringAggActual |-> major >= 14,
       supportsUtf8 |-> major >= 15,
       supportsJsonExtensions |-> major >= 16]

determineCapabilities(version) ==
  LET major == version.major
  IN  [version |-> version,
       supportsBasicFeatures |-> major >= 10,
       supportsSequences |-> major >= 11,
       supportsWindowFunctions |-> major >= 11,
       supportsColumnstoreIndexes |-> major >= 11,
       supportsOffset |-> major >= 11,
       supportsInMemoryOLTP |-> major >= 12,
       supportsDropIfExists |-> major >= 13,
       supportsJson |-> major >= 13,
       supportsTemporal |-> major >= 13,
       supportsAlwaysEncrypted |-> major >= 13,
       supportsStringAgg |-> major >= 14,
       supportsGraphDb |-> major >= 14,
       supportsStringAggActual |-> major >= 14,
       supportsUtf8 |-> major >= 15,
       supportsJsonExtensions |-> major >= 16]

\* detectServerCapabilities() on the outcome of SELECT @@VERSION: the query
\* throws, or returns a recordset (possibly none, possibly empty) whose
\* first row has a version column (a string, or undefined, on which
\* versionString.match throws into the catch block).
detectServerCapabilities(outcome) ==
  IF /\ outcome.t = "returns"
     /\ outcome.recordset.t = "array"
     /\ Len(outcome.recordset.rows) > 0
     /\ outcome.recordset.rows[1].version.t = "string"
  THEN determineCapabilities(
         parseVersion(outcome.recordset.rows[1].version.runs))
  ELSE determineCapabilities(BaselineVersion("SQL Server 2008 (default)"))

(***************************************************************************)
(* The destructive tools: drop_table, delete_data, update_data,            *)
(* insert_data, exec_procedure and create_table. One run() call is a       *)
(* request; it is atomic between its awaits (the row-count query, the      *)
(* elicitation and the database call).                                     *)
(***************************************************************************)
VARIABLES
  config,        \* the SafetyConfig the tools were constructed with
  elicit,        \* whether the tools' elicit function is set
  capabilities,  \* getServerCapabilities(): null until detected
  logWritable,   \* whether mkdirSync / appendFileSync of the audit log succeed
  probe,         \* the last application of a pure function and its result
  req            \* per request slot, the run() call in it and its result

envVars == <<config, elicit, capabilities, logWritable, probe>>
toolVars == <<config, elicit, capabilities, logWritable, probe, req>>
vars == <<pending, now, nextToken, issued, ret, config, elicit, capabilities,
          logWritable, probe, req>>

\* supportsDropIfExists with capabilities that are not detected yet taken
\* as those of a current server.
supportsDropIfExistsUnlessKnown ==
  ~capabilities.detected \/ capabilities.value.supportsDropIfExists

\* capabilities?.supportsDropIfExists
supportsDropIfExists ==
  capabilities.detected /\ capabilities.value.supportsDropIfExists

\* getServerCapabilities() before detection (null) and after it, on a
\* server just below and one just at the version of DROP TABLE IF EXISTS.
NoCapabilities == [detected |-> FALSE]
Capabilities ==
  {NoCapabilities} \cup
  {[detected |-> TRUE,
    value |-> determineCapabilities(
                [BaselineVersion("SQL Server") EXCEPT !.major = major])] :
     major \in {12, 13}}

Kinds == {"DROP", "DELETE", "UPDATE", "INSERT", "EXEC", "CREATE"}

\* The tools with the token and elicitation branches in their dry-run block.
TokenKinds == Kinds \ {"CREATE"}

Slots == {1, 2, 3}

\* No pure function has been applied yet.
NoProbe == [fn |-> "none"]

\* The severity literals with delete_data's written as the comments of the
\* OperationSeverity enum have it.
LoggedSeverityByEnumComment(kind) ==
  CASE kind = "DROP" -> "CRITICAL"
    [] kind = "DELETE" -> "MEDIUM"
    [] kind = "UPDATE" -> "MEDIUM"
    [] kind = "INSERT" -> "LOW"
    [] kind = "EXEC" -> "MEDIUM"
    [] kind = "CREATE" -> "HIGH"

\* The severity literal each tool writes into its audit records.
LoggedSeverity(kind) ==
  CASE kind = "DROP" -> "CRITICAL"
    [] kind = "DELETE" -> "HIGH"
    [] kind = "UPDATE" -> "MEDIUM"
    [] kind = "INSERT" -> "LOW"
    [] kind = "EXEC" -> "MEDIUM"
    [] kind = "CREATE" -> "HIGH"

\* Join the strings of a sequence with a separator (Array.prototype.join).
RECURSIVE Join(_, _)
Join(parts, sep) ==
  IF parts = <<>> THEN ""
  ELSE IF Len(parts) = 1 THEN parts[1]
  ELSE parts[1] \o sep \o Join(Tail(parts), sep)

\* /^[\w\d_.\[\]]+$/.test(tableName), on the table names of the model.
TableNamePattern(tableName) == tableName \in {"Users", "dbo.Users"}

\* validateProcedureName(procedureName).isValid, on the names of the model.
ProcedureNameValid(procedureName) == procedureName \in {"up_Report"}

\* The target (table or procedure) of a request.
Target(kind, args) ==
  IF kind = "EXEC" THEN args.procedureName ELSE args.tableName

\* The input a tool rejects by throwing into its catch block.
InputThrows(kind, args) ==
  CASE kind = "DROP" -> ~TableNamePattern(args.tableName)
    [] kind \in {"DELETE", "UPDATE"} -> args.whereClause = ""
    [] kind = "CREATE" -> args.columns = <<>>
    [] OTHER -> FALSE

\* insert_data: records, and the sorted column names of a record.
Records(data) == IF data.t = "array" THEN data.items ELSE <<data>>

Columns(record) == SortStrings(Range(ObjectKeys(record)))

\* The input a tool rejects by returning mode 'error' without an audit record.
InputRefused(kind, args) ==
  CASE kind = "INSERT" ->
         LET records == Records(args.data)
         IN  \/ records = <<>>
             \/ \E i \in 2..Len(records) :
                  Join(Columns(records[i]), ",") # Join(Columns(records[1]), ",")
    [] kind = "EXEC" -> ~ProcedureNameValid(args.procedureName)
    [] OTHER -> FALSE

\* The SQL text (exec_procedure: the description) a tool builds.
BuildQuery(kind, args) ==
  CASE kind = "DROP" ->
         IF args.ifExists /\ supportsDropIfExists
         THEN "DROP TABLE IF EXISTS [" \o args.tableName \o "]"
         ELSE "DROP TABLE [" \o args.tableName \o "]"
    [] kind = "DELETE" ->
         "DELETE FROM " \o args.tableName \o " WHERE " \o args.whereClause
    [] kind = "UPDATE" ->
         LET keys == ObjectKeys(args.updates)
             setClause == Join([i \in 1..Len(keys) |->
                            "[" \o keys[i] \o "] = @update_" \o ToString(i - 1)],
                          ", ")
         IN  "UPDATE " \o args.tableName \o " SET " \o setClause
               \o " WHERE " \o args.whereClause
    [] kind = "INSERT" ->
         LET records == Records(args.data)
             cols == Columns(records[1])
             values == Join([i \in 1..Len(cols) |-> "@value" \o ToString(i - 1)],
                            ", ")
             valueClauses == [n \in 1..Len(records) |->
               "(" \o Join([i \in 1..Len(cols) |->
                       "@value" \o ToString(n - 1) \o "_" \o ToString(i - 1)],
                     ", ") \o ")"]
         IN  IF args.data.t = "array"
             THEN "INSERT INTO " \o args.tableName \o " (" \o Join(cols, ", ")
                    \o ") VALUES " \o Join(valueClauses, ", ")
             ELSE "INSERT INTO " \o args.tableName \o " (" \o Join(cols, ", ")
                    \o ") VALUES (" \o values \o ")"
    [] kind = "EXEC" ->
         LET ps == args.parameters
             paramDesc ==
               IF ps = Undefined \/ ps = Null THEN "(none)"
               ELSE Join([i \in 1..Len(ps.props) |->
                      "@" \o ps.props[i][1] \o " = "
                          \o JSONstringify(ps.props[i][2])], ", ")
         IN  "EXEC " \o args.procedureName \o " " \o paramDesc
    [] kind = "CREATE" ->
         "CREATE TABLE [" \o args.tableName \o "] ("
           \o Join([i \in 1..Len(args.columns) |->
                "[" \o args.columns[i].name \o "] " \o args.columns[i].type],
              ", ") \o ")"

\* originalParams: the object a tool passes to the confirmation store.
OriginalParams(kind, args) ==
  CASE kind = "DROP" -> Obj(<<<<"tableName", Str(args.tableName)>>>>)
    [] kind = "DELETE" ->
         Obj(<<<<"tableName", Str(args.tableName)>>,
               <<"whereClause", Str(args.whereClause)>>>>)
    [] kind = "UPDATE" ->
         Obj(<<<<"tableName", Str(args.tableName)>>,
               <<"updates", args.updates>>,
               <<"whereClause", Str(args.whereClause)>>>>)
    [] kind = "INSERT" ->
         Obj(<<<<"tableName", Str(args.tableName)>>, <<"data", args.data>>>>)
    [] kind = "EXEC" ->
         Obj(<<<<"procedureName", Str(args.procedureName)>>,
               <<"parameters", args.parameters>>>>)
    [] kind = "CREATE" -> Obj(<<>>)

\* The first policy check of a tool: drop_table and exec_procedure refuse
\* with mode 'forbidden'.
Forbidden(kind, cfg) ==
  CASE kind = "DROP" -> ~isDropAllowed(cfg)
    [] kind = "EXEC" -> ~cfg.allowExecProcedure
    [] OTHER -> FALSE

\* The approval check of create_table, update_data, delete_data, insert_data.
ApprovalRequired(kind, cfg) ==
  kind \in {"CREATE", "UPDATE", "DELETE", "INSERT"} /\ requiresApproval(kind, cfg)

\* if (this.safetyConfig.enableDryRun), preceded by the test that also
\* takes the dry-run block whenever dangerous operations are allowed.
DryRunOrDangerous(cfg) == cfg.enableDryRun \/ cfg.allowDangerousOperations

DryRunEnabled(cfg) == cfg.enableDryRun

\* delete_data and update_data await a row-count query in their dry-run block.
AwaitsRowCount(kind) == kind \in {"DELETE", "UPDATE"}

\* response.action === 'accept' && response.content?.approve, preceded by
\* the test that forgets the approve flag.
ApprovedOnAccept(response) == response.action = "accept"

\* The test that takes every answer but decline for an approval.
ApprovedUnlessDeclined(response) == response.action # "decline"

Approved(response) == response.action = "accept" /\ response.approve

\* What the elicitation can answer.
Responses ==
  {[action |-> a, approve |-> b] : a \in {"accept", "decline", "cancel"},
                                    b \in BOOLEAN}

NoValidation == [called |-> FALSE, valid |-> FALSE, reason |-> NoReason,
                 live |-> FALSE, raced |-> FALSE]
NoResponse == [action |-> "none", approve |-> FALSE]

IdleReq ==
  [pc |-> "idle", kind |-> "", args |-> <<>>, confirmToken |-> 0,
   query |-> "", params |-> Obj(<<>>),
   validation |-> NoValidation, response |-> NoResponse, ran |-> FALSE,
   site |-> "", mode |-> "", success |-> FALSE, declined |-> FALSE, token |-> 0,
   failure |-> "", message |-> <<>>, logged |-> <<>>, diagnostics |-> 0,
   shown |-> {}, sent |-> ""]

\* getSeverityLabel(severity) of the elicitation message.
getSeverityLabel(severity) ==
  IF severity \in {"CRITICAL", "HIGH", "MEDIUM", "LOW"} THEN severity
  ELSE "UNKNOWN"

\* The closing lines of a preview.
CallAgainWithToken ==
  "To execute this operation, call the same tool again with \"confirmToken\": "
SetDryRunFalse == "To execute this operation, set ENABLE_DRY_RUN=false"

\* generateDryRunPreview(operationType, target, query, estimatedImpact,
\* confirmToken): the preview's header names the severity it computes from
\* the operation type, its last line names the token when one is passed
\* (0: the argument is left out). shown collects the severities the
\* messages of the request name, message the pieces of the preview text.
generateDryRunPreview(cur, confirmToken) ==
  [cur EXCEPT !.shown = @ \cup {getOperationSeverity(cur.kind)},
              !.message =
                <<"DRY RUN PREVIEW - ", getOperationSeverity(cur.kind),
                  " OPERATION", cur.query>> \o
                (IF confirmToken # 0
                 THEN <<CallAgainWithToken, ToString(confirmToken)>>
                 ELSE <<SetDryRunFalse>>)]

\* generateApprovalRequiredMessage(operationType, ...): likewise.
generateApprovalRequiredMessage(cur) ==
  [cur EXCEPT !.shown = @ \cup {getOperationSeverity(cur.kind)}]

\* buildConfirmationElicitation(..., severity, ...): the message and the
\* approve field name the label of the severity passed in.
buildConfirmationElicitation(cur, severity) ==
  [cur EXCEPT !.shown = @ \cup {getSeverityLabel(severity)}]

\* The OperationLog a tool builds on its preview and success paths (no
\* error field).
LogRecord(cur, query, dryRun, success) ==
  [operationType |-> cur.kind, target |-> Target(cur.kind, cur.args),
   query |-> query, severity |-> LoggedSeverity(cur.kind),
   dryRun |-> dryRun, success |-> success]

\* The OperationLog a catch block builds: dryRun false, success false and
\* the error field.
FailedLogRecord(cur, query, error) ==
  [operationType |-> cur.kind, target |-> Target(cur.kind, cur.args),
   query |-> query, severity |-> LoggedSeverity(cur.kind),
   dryRun |-> FALSE, success |-> FALSE, error |-> error.message]

\* logOperation(log): append the record to the log file; a failure of
\* mkdirSync or appendFileSync is reported with console.error and swallowed.
logOperation(cur, log) ==
  IF logWritable THEN [cur EXCEPT !.logged = Append(@, log)]
  ELSE [cur EXCEPT !.diagnostics = @ + 1]

\* An error as a catch block receives it: error.name and error.message.
\* The store's errors are the driver's RequestError.
StoreErrors ==
  {[name |-> "RequestError", message |-> text] :
     text \in {"Invalid object name 'Users'.",
               "Could not find stored procedure 'up_Report'."}}

\* The Error a tool throws on input it rejects.
ValidationError(kind) ==
  [name |-> "Error",
   message |->
     CASE kind = "DROP" -> "Invalid table name. Table names can only contain letters, numbers, underscores, dots, and brackets."
       [] kind = "CREATE" -> "'columns' must be a non-empty array"
       [] OTHER -> "WHERE clause is required for security reasons"]

\* errorMessage.includes('Could not find stored procedure'), on the error
\* texts of the model.
IncludesCouldNotFind(text) ==
  text = "Could not find stored procedure 'up_Report'."

\* The message of the result a catch block returns, as the sequence of the
\* pieces its template literal joins; `${error}` is name, ': ', message.
FailureMessage(kind, query, error) ==
  CASE kind = "DROP" ->
         <<"Failed to drop table: ", error.name, ": ", error.message>>
    [] kind = "DELETE" ->
         <<"Failed to delete data: ", error.name, ": ", error.message>>
    [] kind = "INSERT" ->
         <<"Failed to insert data: ", error.name, ": ", error.message>>
    [] kind = "CREATE" ->
         <<"Failed to create table: ", error.name, ": ", error.message>>
    [] kind = "UPDATE" ->
         <<"Failed to update data ",
           IF query # "" THEN " with '" \o query \o "'" ELSE "",
           ": ", error.name, ": ", error.message>>
    [] kind = "EXEC" ->
         IF IncludesCouldNotFind(error.message) THEN <<error.message>>
         ELSE <<"Stored procedure execution failed: ", error.message>>

\* The request returns from the return statement named by site; mode is
\* the mode field of the result (create_table sets none).
Return(cur, site, success) ==
  [cur EXCEPT !.pc = "done", !.site = site,
              !.mode = IF cur.kind = "CREATE" THEN "undefined" ELSE site,
              !.success = success]

\* The catch block of run(): log the failure with the error's message and
\* return mode 'error' with a message built from the error. logQuery is the
\* query of the audit record, query the tool's query variable.
Caught(cur, logQuery, query, error) ==
  Return([logOperation(cur, FailedLogRecord(cur, logQuery, error))
            EXCEPT !.failure = error.message,
                   !.message = FailureMessage(cur.kind, query, error)],
         "error", FALSE)

\* The request sends its operation to the database and awaits the answer.
Execute(cur) ==
  [cur EXCEPT !.pc = "awaitExec", !.ran = TRUE,
              !.sent = IF cur.kind = "EXEC" THEN cur.args.procedureName
                       ELSE cur.query]

\* The token preview that leaves the token out of its result.
TokenPreviewNoToken(r, cur) ==
  /\ Create(cur.kind, Target(cur.kind, cur.args), cur.query, cur.params)
  /\ req' = [req EXCEPT ![r] =
       Return(logOperation(generateDryRunPreview(cur, 0),
                           LogRecord(cur, cur.query, TRUE, TRUE)),
              "preview", TRUE)]

\* Priority 3 and the fallback of a failed elicitation: issue a token, log
\* the dry run and return the preview with the token.
TokenPreview(r, cur) ==
  /\ Create(cur.kind, Target(cur.kind, cur.args), cur.query, cur.params)
  /\ req' = [req EXCEPT ![r] =
       Return(logOperation(generateDryRunPreview([cur EXCEPT !.token = ret'.token], 0),
                           LogRecord(cur, cur.query, TRUE, TRUE)),
              "preview", TRUE)]

\* The dry-run block with the elicitation tested before the token.
DryRunGateBridgeFirst(r, cur) ==
  IF elicit
  THEN /\ req' = [req EXCEPT ![r] =
            [buildConfirmationElicitation(cur, getOperationSeverity(cur.kind))
               EXCEPT !.pc = "awaitElicit"]]
       /\ UNCHANGED storeVars
  ELSE IF cur.confirmToken # 0
  THEN /\ Validate(cur.confirmToken, cur.query, cur.params)
       /\ LET checked == [cur EXCEPT !.validation =
                            [called |-> TRUE, valid |-> ret'.valid,
                             reason |-> ret'.reason,
                             live |-> ret'.wasPending /\ ~ret'.expired,
                             raced |-> \E o \in Slots \ {r} :
                               /\ req[o].confirmToken = cur.confirmToken
                               /\ req[o].pc \in {"awaitCount", "awaitExec"}]]
          IN  req' = [req EXCEPT ![r] =
                IF ~ret'.valid
                THEN Return(checked, "confirmation_failed", FALSE)
                ELSE Execute(checked)]
  ELSE TokenPreview(r, cur)

\* The dry-run block of a tool from `if (confirmToken)` on.
DryRunGate(r, cur) ==
  IF cur.confirmToken # 0
  THEN /\ Validate(cur.confirmToken, cur.query, cur.params)
       /\ LET checked == [cur EXCEPT !.validation =
                            [called |-> TRUE, valid |-> ret'.valid,
                             reason |-> ret'.reason,
                             live |-> ret'.wasPending /\ ~ret'.expired,
                             raced |-> \E o \in Slots \ {r} :
                               /\ req[o].confirmToken = cur.confirmToken
                               /\ req[o].pc \in {"awaitCount", "awaitExec"}]]
          IN  req' = [req EXCEPT ![r] =
                IF ~ret'.valid
                THEN Return(checked, "confirmation_failed", FALSE)
                ELSE Execute(checked)]
  ELSE IF elicit
  THEN /\ req' = [req EXCEPT ![r] =
            [buildConfirmationElicitation(cur, getOperationSeverity(cur.kind))
               EXCEPT !.pc = "awaitElicit"]]
       /\ UNCHANGED storeVars
  ELSE TokenPreview(r, cur)

\* run(params) up to its first await or its return.
Begin(r, kind, args, confirmToken) ==
  LET query == BuildQuery(kind, args)
      start == [IdleReq EXCEPT !.pc = "running", !.kind = kind, !.args = args,
                               !.confirmToken = confirmToken,
                               !.params = OriginalParams(kind, args)]
      cur == [start EXCEPT !.query = query]
      fallbackQuery ==
        CASE kind = "DROP" -> "DROP TABLE [" \o args.tableName \o "]"
          [] kind = "DELETE" -> "DELETE FROM " \o args.tableName
          [] kind = "UPDATE" -> "UPDATE " \o args.tableName
          [] kind = "CREATE" -> "CREATE TABLE [" \o args.tableName \o "]"
          [] OTHER -> ""
  IN  /\ req[r].pc \in {"idle", "done"}
      /\ UNCHANGED envVars
      /\ IF kind = "EXEC" /\ Forbidden(kind, config)
         THEN /\ req' = [req EXCEPT ![r] = Return(start, "forbidden", FALSE)]
              /\ UNCHANGED storeVars
         ELSE IF InputThrows(kind, args)
         THEN /\ req' = [req EXCEPT ![r] =
                   Caught(start, fallbackQuery, "", ValidationError(kind))]
              /\ UNCHANGED storeVars
         ELSE IF InputRefused(kind, args)
         THEN /\ req' = [req EXCEPT ![r] = Return(start, "error", FALSE)]
              /\ UNCHANGED storeVars
         ELSE IF Forbidden(kind, config)
         THEN /\ req' = [req EXCEPT ![r] = Return(cur, "forbidden", FALSE)]
              /\ UNCHANGED storeVars
         ELSE IF ApprovalRequired(kind, config)
         THEN /\ req' = [req EXCEPT ![r] =
                   Return(generateApprovalRequiredMessage(cur),
                          "approval_required", FALSE)]
              /\ UNCHANGED storeVars
         ELSE IF ~DryRunEnabled(config)
         THEN /\ req' = [req EXCEPT ![r] = Execute(cur)]
              /\ UNCHANGED storeVars
         ELSE IF kind = "CREATE"
         THEN /\ req' = [req EXCEPT ![r] =
                   Return(logOperation(generateDryRunPreview(cur, 0),
                                       LogRecord(cur, query, TRUE, TRUE)),
                          "preview", TRUE)]
              /\ UNCHANGED storeVars
         ELSE IF AwaitsRowCount(kind)
         THEN /\ req' = [req EXCEPT ![r] = [cur EXCEPT !.pc = "awaitCount"]]
              /\ UNCHANGED storeVars
         ELSE DryRunGate(r, cur)

\* The row-count query is awaited and run() is never resumed.
CountReturnsNeverResumes(r) ==
  /\ req[r].pc = "awaitCount"
  /\ UNCHANGED envVars
  /\ UNCHANGED storeVars
  /\ UNCHANGED req

\* The row-count query of delete_data / update_data returns or throws (the
\* tool goes on either way, with another impact text).
CountReturns(r) ==
  /\ req[r].pc = "awaitCount"
  /\ UNCHANGED envVars
  /\ DryRunGate(r, req[r])

\* The elicitation answers.
ElicitReturns(r, response) ==
  /\ req[r].pc = "awaitElicit"
  /\ UNCHANGED envVars
  /\ UNCHANGED storeVars
  /\ LET cur == [req[r] EXCEPT !.response = response]
     IN  req' = [req EXCEPT ![r] =
           IF Approved(response) THEN Execute(cur)
           ELSE Return([generateDryRunPreview([cur EXCEPT !.declined = TRUE], 0)
                          EXCEPT !.message = @ \o <<"Operation declined by user.">>],
                       "preview", TRUE)]

\* The elicitation throws and the error reaches the catch block of run().
ElicitThrowsFails(r) ==
  /\ req[r].pc = "awaitElicit"
  /\ UNCHANGED envVars
  /\ UNCHANGED storeVars
  /\ LET cur == [req[r] EXCEPT !.response =
                   [action |-> "threw", approve |-> FALSE]]
     IN  req' = [req EXCEPT ![r] =
           Caught(cur, cur.query, cur.query,
                  [name |-> "Error", message |-> "Elicitation failed"])]

\* The elicitation throws: the tool falls back to the token flow.
ElicitThrows(r) ==
  /\ req[r].pc = "awaitElicit"
  /\ UNCHANGED envVars
  /\ TokenPreview(r, [req[r] EXCEPT !.response =
                        [action |-> "threw", approve |-> FALSE]])

\* The database call returns while logOperation lets a failed write escape:
\* the error leaves the try block, the catch block's own logOperation
\* throws again and run() rejects.
QueryReturnsLogThrows(r) ==
  /\ req[r].pc = "awaitExec"
  /\ UNCHANGED envVars
  /\ UNCHANGED storeVars
  /\ req' = [req EXCEPT ![r] =
       IF logWritable
       THEN Return(logOperation(req[r], LogRecord(req[r], req[r].query, FALSE, TRUE)),
                   "executed", TRUE)
       ELSE [req[r] EXCEPT !.pc = "done", !.site = "raised"]]

\* The database call returns: log the success, return mode 'executed'.
QueryReturns(r) ==
  /\ req[r].pc = "awaitExec"
  /\ UNCHANGED envVars
  /\ UNCHANGED storeVars
  /\ req' = [req EXCEPT ![r] =
       Return(logOperation(req[r], LogRecord(req[r], req[r].query, FALSE, TRUE)),
              "executed", TRUE)]

\* The database call throws and the catch block puts the token that
\* confirmed the request back into the store.
QueryThrowsRestoresToken(r, error) ==
  /\ req[r].pc = "awaitExec"
  /\ UNCHANGED envVars
  /\ pending' =
       IF req[r].confirmToken # 0 /\ req[r].validation.valid
       THEN Append(pending,
                   NewEntry(req[r].confirmToken, req[r].kind,
                            Target(req[r].kind, req[r].args), req[r].query,
                            req[r].params, now))
       ELSE pending
  /\ UNCHANGED <<now, nextToken, issued, ret>>
  /\ req' = [req EXCEPT ![r] =
       Caught(req[r], req[r].query, req[r].query, error)]

\* The database call throws: the catch block logs the failure and returns
\* mode 'error'.
QueryThrows(r, error) ==
  /\ req[r].pc = "awaitExec"
  /\ UNCHANGED envVars
  /\ UNCHANGED storeVars
  /\ LET failedQuery ==
           CASE req[r].kind = "DROP" ->
                  "DROP TABLE [" \o req[r].args.tableName \o "]"
             [] req[r].kind = "DELETE" ->
                  "DELETE FROM " \o req[r].args.tableName
             [] req[r].kind = "CREATE" ->
                  "CREATE TABLE [" \o req[r].args.tableName \o "]"
             [] req[r].kind = "EXEC" ->
                  "EXEC " \o req[r].args.procedureName
             [] OTHER -> req[r].query
     IN  req' = [req EXCEPT ![r] =
           Caught(req[r], failedQuery, req[r].query, error)]

\* loadSafetyConfig(): every flag is read from the environment.
Configs ==
  [allowDangerousOperations : BOOLEAN, requireApprovalForCreate : BOOLEAN,
   requireApprovalForUpdate : BOOLEAN, requireApprovalForDelete : BOOLEAN,
   requireApprovalForInsert : BOOLEAN, allowExecProcedure : BOOLEAN,
   enableDryRun : BOOLEAN]

\* The defaults of loadSafetyConfig(): every flag false.
DefaultConfig ==
  [allowDangerousOperations |-> FALSE, requireApprovalForCreate |-> FALSE,
   requireApprovalForUpdate |-> FALSE, requireApprovalForDelete |-> FALSE,
   requireApprovalForInsert |-> FALSE, allowExecProcedure |-> FALSE,
   enableDryRun |-> FALSE]

\* No request has been made.
ToolsIdle ==
  /\ config = DefaultConfig
  /\ elicit = FALSE
  /\ capabilities = NoCapabilities
  /\ logWritable = TRUE
  /\ probe = NoProbe
  /\ req = [r \in Slots |-> IdleReq]

(***************************************************************************)
(* Inputs of the store-level specifications.                               *)
(***************************************************************************)
PreviewQuery == "DELETE FROM Users WHERE id = 1"
Queries == {PreviewQuery, "DELETE FROM Users WHERE 1 = 1"}
PreviewParams == Obj(<<<<"a", Num(1)>>>>)
StoreParams == {PreviewParams, Obj(<<<<"a", Null>>>>)}
UpdateQuery == "UPDATE Users SET [a] = @update_0 WHERE id = 1"
UpdateQueries == {UpdateQuery, "UPDATE Users SET [a] = @update_0 WHERE 1 = 1"}

\* The sequences of distinct property names over a set of names.
KeySeqs(names) ==
  {ks \in UNION {[1..n -> names] : n \in 0..Cardinality(names)} :
     \A i, j \in 1..Len(ks) : i # j => ks[i] # ks[j]}

\* The objects with property names among `names`, in every insertion order,
\* and property values among `values`.
ObjectsOver(names, values) ==
  UNION {{Obj([i \in 1..Len(ks) |-> <<ks[i], vs[i]>>]) :
            vs \in [1..Len(ks) -> values]} : ks \in KeySeqs(names)}

\* Parameter objects as the tools build them from the JSON arguments of a
\* call: flat records, a record nested under a property, and a record inside
\* an array.
FlatParams == ObjectsOver({"a", "b"}, {Num(1), Null, Infinity})
InnerRecords == ObjectsOver({"a", "b"}, {Num(1), Undefined})
BindParams ==
  FlatParams
    \cup {Obj(<<<<"data", r>>>>) : r \in InnerRecords}
    \cup {Obj(<<<<"data", Arr(<<r>>)>>>>) : r \in InnerRecords}

(***************************************************************************)
(* Spec: the store under any interleaving of create and validate calls     *)
(* and the passing of time.                                                *)
(***************************************************************************)
StoreNext ==
  \/ nextToken <= MaxTokens
       /\ Create("DELETE", "Users", PreviewQuery, PreviewParams)
  \/ \E t \in 0..(nextToken - 1), q \in Queries, p \in StoreParams :
       Validate(t, q, p)
  \/ Tick

Init == StoreInit /\ ToolsIdle
Next == StoreNext /\ UNCHANGED toolVars

Spec == Init /\ [][Next]_vars

(***************************************************************************)
(* SpecBind: one token, created for any query and parameter object and     *)
(* validated against any other.                                            *)
(***************************************************************************)
BindCreate ==
  \E p \in BindParams :
    nextToken = 1 /\ Create("UPDATE", "Users", UpdateQuery, p)

BindValidate ==
  \E q \in UpdateQueries, p \in BindParams :
    IsPending(1) /\ Validate(1, q, p)

BindTick == IsPending(1) /\ Tick

BindNext == (BindCreate \/ BindValidate \/ BindTick) /\ UNCHANGED toolVars

SpecBind == Init /\ [][BindNext]_vars

(***************************************************************************)
(* SpecCap: the store filled to its capacity and beyond. Time passes and    *)
(* tokens are validated only once the store is nearly full, and only the   *)
(* two first-created tokens and the newest one are validated.              *)
(***************************************************************************)
CapCreate ==
  /\ nextToken <= MAX_PENDING + 2
  /\ Create("DELETE", "Users", PreviewQuery, PreviewParams)

CapValidate ==
  \E t \in {1, 2, nextToken - 1} :
    /\ Len(pending) >= MAX_PENDING - 1
    /\ Validate(t, PreviewQuery, PreviewParams)

CapTick == Len(pending) >= MAX_PENDING - 1 /\ Tick

CapNext == (CapCreate \/ CapValidate \/ CapTick) /\ UNCHANGED toolVars

SpecCap == Init /\ [][CapNext]_vars

(***************************************************************************)
(* Inputs of the tool-level specifications.                                *)
(***************************************************************************)
DropArgs ==
  {[tableName |-> "Users", ifExists |-> b] : b \in BOOLEAN} \cup
  {[tableName |-> "Users; --", ifExists |-> FALSE]}

DeleteArgs ==
  {[tableName |-> "Users", whereClause |-> w] : w \in {"id = 1", ""}}

UpdateArgs ==
  {[tableName |-> "Users", updates |-> Obj(<<<<"a", Num(1)>>>>),
    whereClause |-> w] : w \in {"id = 1", ""}}

InsertArgs ==
  {[tableName |-> "Users", data |-> d] :
     d \in {Obj(<<<<"a", Num(1)>>>>), Arr(<<Obj(<<<<"a", Num(1)>>>>)>>),
            Arr(<<>>)}}

ExecArgs ==
  {[procedureName |-> "up_Report", parameters |-> ps] :
     ps \in {Undefined, Obj(<<<<"a", Num(1)>>>>)}} \cup
  {[procedureName |-> "up Report", parameters |-> Undefined]}

CreateArgs ==
  {[tableName |-> "Users", columns |-> cs] :
     cs \in {<<>>, <<[name |-> "id", type |-> "INT"]>>}}

ArgsOf(kind) ==
  CASE kind = "DROP" -> DropArgs
    [] kind = "DELETE" -> DeleteArgs
    [] kind = "UPDATE" -> UpdateArgs
    [] kind = "INSERT" -> InsertArgs
    [] kind = "EXEC" -> ExecArgs
    [] kind = "CREATE" -> CreateArgs

(***************************************************************************)
(* SpecTool: one client calling the tools one request at a time, under     *)
(* every SafetyConfig, with and without elicitation.                       *)
(***************************************************************************)
\* The configurations of SpecTool: every flag both ways, the four approval
\* flags together (each tool reads its own one only).
ToolConfigs ==
  {c \in Configs :
     /\ c.requireApprovalForUpdate = c.requireApprovalForCreate
     /\ c.requireApprovalForDelete = c.requireApprovalForCreate
     /\ c.requireApprovalForInsert = c.requireApprovalForCreate}

ToolInit ==
  /\ StoreInit
  /\ config \in ToolConfigs
  /\ elicit \in BOOLEAN
  /\ capabilities \in Capabilities
  /\ logWritable = TRUE
  /\ probe = NoProbe
  /\ req = [r \in Slots |-> IdleReq]

\* A confirmToken the store has never issued.
ForgedToken == -1

ToolBegin ==
  \E kind \in Kinds : \E args \in ArgsOf(kind) :
    \E t \in 0..(nextToken - 1) \cup {ForgedToken} :
    /\ t \in {0, ForgedToken} => nextToken = 1
    /\ Begin(1, kind, args, t)

ToolCountReturns == CountReturns(1)

ToolElicitReturns == \E response \in Responses : ElicitReturns(1, response)

ToolElicitThrows == ElicitThrows(1)

ToolQueryReturns == QueryReturns(1)

ToolQueryThrows == \E error \in StoreErrors : QueryThrows(1, error)

ToolNext ==
  \/ ToolBegin
  \/ ToolCountReturns
  \/ ToolElicitReturns
  \/ ToolElicitThrows
  \/ ToolQueryReturns
  \/ ToolQueryThrows

SpecTool == ToolInit /\ [][ToolNext]_vars

(***************************************************************************)
(* SpecRace: requests in flight at once. Dry-run is on, nothing is         *)
(* forbidden and the client has no elicitation: one request asks for a     *)
(* preview and the others confirm its token, with the same or with another *)
(* operation; time passes between the steps.                               *)
(***************************************************************************)
RaceConfig ==
  [DefaultConfig EXCEPT !.allowDangerousOperations = TRUE,
                        !.allowExecProcedure = TRUE,
                        !.enableDryRun = TRUE]

RaceKinds == {"DELETE", "DROP"}

RaceArgs(kind) ==
  IF kind = "DELETE"
  THEN {[tableName |-> "Users", whereClause |-> w] : w \in {"id = 1", "id = 2"}}
  ELSE {[tableName |-> "Users", ifExists |-> FALSE]}

RaceInit ==
  /\ StoreInit
  /\ config = RaceConfig
  /\ elicit = FALSE
  /\ capabilities = NoCapabilities
  /\ logWritable = TRUE
  /\ probe = NoProbe
  /\ req = [r \in Slots |-> IdleReq]

\* A request without a token: it ends in a preview with a new token.
RacePreview ==
  \E kind \in RaceKinds : \E args \in RaceArgs(kind) :
    /\ nextToken = 1
    /\ Begin(1, kind, args, 0)

\* A request that carries a token issued before (each slot confirms once).
RaceConfirm ==
  \E r \in Slots : \E kind \in RaceKinds : \E args \in RaceArgs(kind) :
    \E t \in 1..(nextToken - 1) :
      /\ req[r].confirmToken = 0
      /\ Begin(r, kind, args, t)

RaceCountReturns == \E r \in Slots : CountReturns(r)

RaceQueryReturns == \E r \in Slots : QueryReturns(r)

RaceQueryThrows ==
  \E r \in Slots : QueryThrows(r, CHOOSE error \in StoreErrors : TRUE)

\* Time passes (it matters only while a token is pending).
RaceTick == pending # <<>> /\ Tick /\ UNCHANGED toolVars

RaceNext ==
  \/ RacePreview
  \/ RaceConfirm
  \/ RaceCountReturns
  \/ RaceQueryReturns
  \/ RaceQueryThrows
  \/ RaceTick

SpecRace == RaceInit /\ [][RaceNext]_vars

(***************************************************************************)
(* Claims about the ConfirmationStore.                                     *)
(***************************************************************************)
\* The last call was validate, carrying an issued token.
Validated == ret.op = "validate" /\ ret.token \in Issued

\* The last call carried the query / the parameter object of the create call.
SameQuery == ret.query = issued[ret.token].query
SameParams == ret.params = issued[ret.token].params

\* Equality of two values up to the order of the properties of every object
\* in them.
RECURSIVE SameValue(_, _)
SameValue(v, w) ==
  IF v.t # w.t THEN FALSE
  ELSE IF v.t = "object"
    THEN /\ Range(ObjectKeys(v)) = Range(ObjectKeys(w))
         /\ \A k \in Range(ObjectKeys(v)) : SameValue(Get(v, k), Get(w, k))
  ELSE IF v.t = "array"
    THEN /\ Len(v.items) = Len(w.items)
         /\ \A i \in 1..Len(v.items) : SameValue(v.items[i], w.items[i])
  ELSE v = w

\* C1: single use. Of the validate calls carrying a token at most one returns
\* valid=true, and the first validate call carrying a token returns valid=true
\* when it carries the query and parameters of the create call, is made
\* within the TTL and the token has not been evicted.
C1_SingleUse ==
  /\ \A t \in Issued : issued[t].okCount <= 1
  /\ (Validated /\ ret.first /\ ret.wasPending /\ ~ret.expired
        /\ SameQuery /\ SameParams) => ret.valid

\* A second validate call with the arguments of the create call, after the
\* first one succeeded, has been refused.
C1_Witness ==
  /\ Validated /\ ~ret.first /\ ~ret.valid
  /\ SameQuery /\ SameParams /\ ~ret.expired
  /\ issued[ret.token].okCount = 1

\* C7: expiry. A validate call made when more than the TTL has passed since
\* the token was created never returns valid=true; its reason is 'Token has
\* expired.', or 'Token not found or already expired.' when the entry had
\* already been removed (by the cleanup of a create call or by an earlier
\* validate call).
C7_Expiry ==
  (Validated /\ ret.expired) =>
    /\ ~ret.valid
    /\ ret.reason \in {ReasonExpired, ReasonNotFound}

\* A never-used token is refused as expired after a later create call.
C7_Witness ==
  /\ Validated /\ ret.expired /\ ret.first /\ SameQuery /\ SameParams
  /\ ret.reason = ReasonExpired
  /\ ret.token = 1 /\ nextToken > 2

\* C8: a second validate call with the arguments of a successful first one
\* fails with the reason 'Token has already been used.'.
C8_ReplayReasonUsed ==
  (Validated /\ ~ret.first /\ SameQuery /\ SameParams
     /\ issued[ret.token].okCount = 1) =>
    /\ ~ret.valid
    /\ ret.reason = ReasonUsed

\* C9: a failed confirm burns the token. Once a validate call carrying a token
\* has failed on expiry, query mismatch or params mismatch, the token is not
\* pending and no validate call carrying it returns valid=true.
C9_FailureBurns ==
  /\ \A t \in Issued : issued[t].burned => ~IsPending(t)
  /\ (Validated /\ ret.valid) => ~issued[ret.token].burned

\* A retry with the original arguments, within the TTL, of a token that a
\* mismatch burned has been refused.
C9_Witness ==
  /\ Validated /\ ~ret.first /\ ~ret.valid /\ ~ret.expired
  /\ SameQuery /\ SameParams
  /\ issued[ret.token].burned /\ issued[ret.token].okCount = 0

\* The last call validated a pending, unexpired token.
ValidatedLive == Validated /\ ret.wasPending /\ ~ret.expired

\* C4: query binding. validate of a pending, unexpired token with the
\* parameters of the create call and another query text returns valid=false
\* with the query-mismatch reason.
C4_QueryBinding ==
  (ValidatedLive /\ ~SameQuery /\ SameParams) =>
    /\ ~ret.valid
    /\ ret.reason = ReasonQuery

C4_Witness ==
  ValidatedLive /\ ~SameQuery /\ SameParams /\ ret.reason = ReasonQuery

\* C5: parameter binding. validate of a pending, unexpired token with the
\* query of the create call and a parameter object that is not equal to the
\* one of the create call (whatever its key order) returns valid=false with
\* the params-mismatch reason.
C5_ParamsBinding ==
  (ValidatedLive /\ SameQuery
     /\ ~SameValue(ret.params, issued[ret.token].params)) =>
    /\ ~ret.valid
    /\ ret.reason = ReasonParams

\* C6: key-order independence. validate of a pending, unexpired token with
\* the query of the create call and a parameter object equal to the one of
\* the create call up to the order of the keys of any object in it returns
\* valid=true, and the two objects have the same canonical string.
C6_KeyOrderIndependence ==
  (ValidatedLive /\ SameQuery
     /\ SameValue(ret.params, issued[ret.token].params)) =>
    /\ ret.valid
    /\ canonicalStringify(ret.params)
         = canonicalStringify(issued[ret.token].params)

\* A token was accepted with the keys of a nested record in another order.
C6_Witness ==
  /\ ValidatedLive /\ ret.valid
  /\ ret.params # issued[ret.token].params
  /\ SameValue(ret.params, issued[ret.token].params)
  /\ \E r \in InnerRecords : ret.params = Obj(<<<<"data", Arr(<<r>>)>>>>)

\* C10: capacity eviction. After MAX_PENDING + 1 consecutive create calls with
\* no validate call and no entry expiring, the first-created token is no
\* longer pending, and validating it with its own query and parameters fails.
C10_CapacityEviction ==
  /\ (/\ nextToken - 1 = MAX_PENDING + 1
      /\ \A t \in Issued : ~issued[t].touched
      /\ now - issued[1].createdAt <= ttlMs) => ~IsPending(1)
  /\ (/\ Validated /\ ret.token = 1 /\ ret.first /\ ~ret.expired
      /\ nextToken - 1 = MAX_PENDING + 1
      /\ \A t \in Issued \ {1} : ~issued[t].touched) => ~ret.valid

(***************************************************************************)
(* Claims about the request flow of the tools.                             *)
(***************************************************************************)
\* The requests that carry token t with the query and the parameters of its
\* preview, and those of them that have called validate.
Racers(t) ==
  {r \in Slots : /\ req[r].confirmToken = t
                 /\ req[r].query = issued[t].query
                 /\ req[r].params = issued[t].params}

RacersValidated(t) == {r \in Racers(t) : req[r].validation.called}

\* C2: of the requests that carry one token with the matching query and
\* parameters, in flight at once or one after the other, never two reach
\* Execute; and when the token is still pending and unexpired as the first
\* of them validates, exactly one passes validation and reaches Execute and
\* every other one ends in mode confirmation_failed.
C2_RaceOneWinner ==
  \A t \in Issued :
    /\ Cardinality({r \in Slots : req[r].confirmToken = t /\ req[r].ran}) <= 1
    /\ issued[t].okCount <= 1
    /\ (\E r \in RacersValidated(t) : req[r].validation.live) =>
         /\ Cardinality({r \in RacersValidated(t) :
                           req[r].validation.valid /\ req[r].ran}) = 1
         /\ \A r \in RacersValidated(t) :
              ~req[r].validation.valid =>
                req[r].pc = "done" /\ req[r].mode = "confirmation_failed"

\* Two delete_data requests with the token of the same preview awaited their
\* row counts at the same time; one was executed, the other one failed its
\* confirmation.
C2_Witness ==
  \E t \in Issued : \E r1, r2 \in RacersValidated(t) :
    /\ r1 # r2
    /\ req[r1].kind = "DELETE" /\ req[r2].kind = "DELETE"
    /\ req[r1].validation.valid /\ req[r1].mode = "executed"
    /\ req[r2].validation.raced /\ req[r2].mode = "confirmation_failed"

\* C3: with enableDryRun set, a DROP, DELETE, UPDATE, INSERT or EXEC request
\* has been sent to the database only if, in that request, validate returned
\* valid for its confirmToken or the elicitation answered accept with the
\* approve flag set; whatever the other flags are.
C3_DryRunGate ==
  \A r \in Slots :
    (config.enableDryRun /\ req[r].kind \in TokenKinds /\ req[r].ran) =>
       \/ /\ req[r].confirmToken # 0
          /\ req[r].validation.called
          /\ req[r].validation.valid
       \/ /\ req[r].response.action = "accept"
          /\ req[r].response.approve

\* A DROP ran under dry-run with dangerous operations allowed, on a valid
\* token.
C3_Witness ==
  /\ config.enableDryRun
  /\ config.allowDangerousOperations
  /\ req[1].kind = "DROP"
  /\ req[1].ran
  /\ req[1].validation.valid
  /\ req[1].mode = "executed"

\* C11: the store never holds more than MAX_PENDING pending entries, after
\* any sequence of create and validate calls.
C11_BoundedStore == Len(pending) <= MAX_PENDING

\* The request in slot r has been made; its input passes the tool's own
\* validation (table name, WHERE clause, records, columns, procedure name).
Began(r) == req[r].pc # "idle"

WellFormed(r) ==
  /\ ~InputThrows(req[r].kind, req[r].args)
  /\ ~InputRefused(req[r].kind, req[r].args)

\* The request in slot r was confirmed by a valid token or by the operator.
ConfirmedByToken(r) ==
  /\ req[r].confirmToken # 0
  /\ req[r].validation.called
  /\ req[r].validation.valid

ConfirmedByOperator(r) ==
  req[r].response.action = "accept" /\ req[r].response.approve

\* C12: with allowDangerousOperations off, every drop_table request, whatever
\* its tableName, ifExists, confirmToken, the dry-run flag and the bridge,
\* ends with mode 'forbidden', issues no token, runs nothing and writes no
\* audit record with dryRun=false.
C12_DropForbiddenByDefault ==
  \A r \in Slots :
    (req[r].kind = "DROP" /\ ~config.allowDangerousOperations) =>
       /\ req[r].pc = "done"
       /\ req[r].mode = "forbidden"
       /\ req[r].token = 0
       /\ ~req[r].ran
       /\ \A i \in 1..Len(req[r].logged) : req[r].logged[i].dryRun

\* C13: a DROP is sent to the database only after a valid confirmation token
\* or an interactive accept, whatever the policy flags are.
C13_DropNeedsConfirmation ==
  \A r \in Slots :
    (req[r].kind = "DROP" /\ req[r].ran) =>
       ConfirmedByToken(r) \/ ConfirmedByOperator(r)

\* The requireApprovalFor* flag of a kind, read from the configuration.
ApprovalFlag(kind) ==
  \/ kind = "CREATE" /\ config.requireApprovalForCreate
  \/ kind = "UPDATE" /\ config.requireApprovalForUpdate
  \/ kind = "DELETE" /\ config.requireApprovalForDelete
  \/ kind = "INSERT" /\ config.requireApprovalForInsert

C15_InteractiveOutcome ==
  \A r \in Slots :
    req[r].response.action \in {"accept", "decline", "cancel"} =>
       /\ req[r].ran <=> ConfirmedByOperator(r)
       /\ ~ConfirmedByOperator(r) =>
            /\ req[r].pc = "done"
            /\ req[r].declined
            /\ req[r].success
            /\ req[r].mode = "preview"
            /\ req[r].token = 0
            /\ req[r].logged = <<>>
       /\ ConfirmedByOperator(r) => ~req[r].declined

\* The operator answered accept without the approve flag, and the request
\* ended declined.
C15_Witness ==
  /\ req[1].response = [action |-> "accept", approve |-> FALSE]
  /\ req[1].declined
  /\ req[1].pc = "done"

C17_HumanOnlyApproval ==
  \A r \in Slots :
    (elicit /\ config.enableDryRun /\ req[r].ran) => ConfirmedByOperator(r)

\* The policy flag that forbids a kind outright, read from the configuration.
ForbiddenFlag(kind) ==
  \/ kind = "DROP" /\ ~config.allowDangerousOperations
  \/ kind = "EXEC" /\ ~config.allowExecProcedure

\* C18: with dry-run on, no bridge and no confirmToken, a well-formed request
\* of any kind (CREATE, DROP, UPDATE, DELETE, INSERT, EXEC) that is neither
\* forbidden nor approval-gated runs nothing and ends as a preview carrying
\* a newly issued token, with one audit record, dryRun=true.
C18_PreviewWithToken ==
  \A r \in Slots :
    (/\ config.enableDryRun /\ ~elicit
     /\ req[r].pc = "done" /\ WellFormed(r)
     /\ req[r].kind \in Kinds
     /\ ~ForbiddenFlag(req[r].kind) /\ ~ApprovalFlag(req[r].kind)
     /\ req[r].confirmToken = 0) =>
       /\ ~req[r].ran
       /\ req[r].site = "preview"
       /\ req[r].token \in Issued
       /\ Len(req[r].logged) = 1
       /\ req[r].logged[1].dryRun

\* C19: with dry-run on, no approval required for INSERT and no bridge, a
\* well-formed insert_data request without a token ends as a preview with a
\* token; a request with the same tableName and data carrying that token
\* while it is pending passes validation, is sent to the database, and ends
\* in mode executed when the database call returns.
C19_TwoPhaseInsert ==
  \A r \in Slots :
    (/\ config.enableDryRun /\ ~config.requireApprovalForInsert /\ ~elicit
     /\ req[r].kind = "INSERT" /\ WellFormed(r)) =>
       /\ (req[r].confirmToken = 0 /\ req[r].pc = "done") =>
            /\ req[r].mode = "preview"
            /\ req[r].token \in Issued
            /\ ~req[r].ran
       /\ (/\ req[r].confirmToken \in Issued
           /\ req[r].validation.live
           /\ req[r].query = issued[req[r].confirmToken].query
           /\ req[r].params = issued[req[r].confirmToken].params) =>
            /\ req[r].validation.valid
            /\ req[r].ran
            /\ req[r].pc \in {"awaitExec", "done"}
            /\ req[r].pc = "done" =>
                 \/ req[r].mode = "executed" /\ req[r].success
                 \/ /\ req[r].mode = "error"
                    /\ ~req[r].logged[Len(req[r].logged)].success

\* An insert_data request carrying the token of its preview was executed.
C19_Witness ==
  /\ config.enableDryRun /\ ~elicit
  /\ req[1].kind = "INSERT"
  /\ req[1].confirmToken \in Issued
  /\ req[1].params = issued[req[1].confirmToken].params
  /\ req[1].validation.valid
  /\ req[1].mode = "executed"

AuditConfigs ==
  {[allowDangerousOperations |-> TRUE, requireApprovalForCreate |-> FALSE,
    requireApprovalForUpdate |-> FALSE, requireApprovalForDelete |-> FALSE,
    requireApprovalForInsert |-> FALSE, allowExecProcedure |-> TRUE,
    enableDryRun |-> d] : d \in BOOLEAN}

AuditInit ==
  /\ StoreInit
  /\ config \in AuditConfigs
  /\ elicit \in BOOLEAN
  /\ capabilities = NoCapabilities
  /\ logWritable \in BOOLEAN
  /\ probe = NoProbe
  /\ req = [r \in Slots |-> IdleReq]

SpecAudit == AuditInit /\ [][ToolNext]_vars

(***************************************************************************)
(* Audit trail.                                                            *)
(***************************************************************************)

\* The terminal outcomes of a request, by the return statement taken.
TerminalOutcomes ==
  {"forbidden", "approval_required", "preview", "confirmation_failed",
   "executed", "error"}

\* C21: every request that has returned with a terminal outcome (forbidden,
\* approval required, preview, declined, confirmation failed, executed or
\* execution error) has appended at least one audit record for the attempt.
C21_AuditTrail ==
  \A r \in Slots :
    req[r].pc = "done" /\ req[r].site \in TerminalOutcomes
      => Len(req[r].logged) >= 1

\* The audit records of request r that report an execution (dryRun false).
ExecutionRecords(r) ==
  {i \in 1..Len(req[r].logged) : ~req[r].logged[i].dryRun}

\* C22: every request that reached the database call appends exactly one
\* audit record with dryRun false, with success true when the call returned
\* and success false plus the error detail when it threw, and returns a
\* result with mode 'executed' or mode 'error' respectively.
C22_ExecuteAudited ==
  \A r \in Slots :
    req[r].pc = "done" /\ req[r].ran
      => /\ Cardinality(ExecutionRecords(r)) = 1
         /\ \A i \in ExecutionRecords(r) :
              IF req[r].failure = ""
              THEN /\ req[r].logged[i].success
                   /\ req[r].mode = "executed"
              ELSE /\ ~req[r].logged[i].success
                   /\ "error" \in DOMAIN req[r].logged[i]
                   /\ req[r].logged[i].error = req[r].failure
                   /\ req[r].mode = "error"

\* The returns of a request before which the tool calls logOperation.
Audited(r) ==
  \/ req[r].site \in {"executed"}
  \/ req[r].site = "error" /\ req[r].failure # ""
  \/ req[r].site = "preview" /\ (req[r].token # 0 \/ req[r].kind = "CREATE")

\* C23: when the audit log cannot be written, logOperation reports the
\* failure on the diagnostic channel and returns; the request ends with the
\* outcome it has when the write succeeds: a database call that returned is
\* reported as executed, one that threw as an error, and a token preview
\* still hands out its token.
C23_AuditFailureSwallowed ==
  \A r \in Slots :
    req[r].pc = "done"
      => /\ req[r].site \in TerminalOutcomes
         /\ req[r].ran /\ req[r].failure = ""
              => req[r].site = "executed" /\ req[r].success
         /\ req[r].ran /\ req[r].failure # ""
              => req[r].site = "error" /\ ~req[r].success
         /\ req[r].token # 0
              => req[r].site = "preview" /\ req[r].success
         /\ ~logWritable
              => /\ req[r].logged = <<>>
                 /\ req[r].diagnostics = IF Audited(r) THEN 1 ELSE 0
         /\ logWritable
              => /\ req[r].diagnostics = 0
                 /\ Len(req[r].logged) = IF Audited(r) THEN 1 ELSE 0

\* A completed database operation is reported as executed although its
\* audit record could not be written.
C23_Witness ==
  /\ ~logWritable
  /\ req[1].pc = "done" /\ req[1].ran /\ req[1].failure = ""
  /\ req[1].site = "executed" /\ req[1].diagnostics = 1

\* C24: when the database call of a request throws, the message returned to
\* the caller does not contain the raw error text; the text appears only in
\* the error field of the audit record.
C24_NoRawErrorLeak ==
  \A r \in Slots :
    req[r].pc = "done" /\ req[r].ran /\ req[r].failure # ""
      => /\ \A i \in 1..Len(req[r].message) : req[r].message[i] # req[r].failure
         /\ \A i \in ExecutionRecords(r) : req[r].logged[i].error = req[r].failure

(***************************************************************************)
(* The pure functions of SafetyConfig, applied to drawn arguments: the     *)
(* initial state draws the operation type and the policy, the actions      *)
(* apply getOperationSeverity and requiresApproval to them.                *)
(***************************************************************************)

\* The operation types a caller can pass at run time: the seven the
\* functions name and two they do not.
OperationTypes ==
  {"DROP", "DELETE", "CREATE", "UPDATE", "EXEC", "INSERT", "READ",
   "ALTER", "TRUNCATE"}

PolicyInit ==
  /\ StoreInit
  /\ config \in Configs
  /\ elicit = FALSE
  /\ capabilities = NoCapabilities
  /\ logWritable = TRUE
  /\ probe \in {[fn |-> "none", operationType |-> k] : k \in OperationTypes}
  /\ req = [r \in Slots |-> IdleReq]

ApplySeverity ==
  /\ probe' = [fn |-> "getOperationSeverity",
               operationType |-> probe.operationType,
               result |-> getOperationSeverity(probe.operationType),
               again |-> getOperationSeverity(probe.operationType)]
  /\ UNCHANGED <<storeVars, config, elicit, capabilities, logWritable, req>>

ApplyApproval ==
  /\ probe' = [fn |-> "requiresApproval",
               operationType |-> probe.operationType,
               result |-> requiresApproval(probe.operationType, config)]
  /\ UNCHANGED <<storeVars, config, elicit, capabilities, logWritable, req>>

ApplyDropAllowed ==
  /\ probe' = [fn |-> "isDropAllowed",
               operationType |-> probe.operationType,
               result |-> isDropAllowed(config)]
  /\ UNCHANGED <<storeVars, config, elicit, capabilities, logWritable, req>>

PolicyNext == ApplySeverity \/ ApplyApproval \/ ApplyDropAllowed

SpecPolicy == PolicyInit /\ [][PolicyNext]_vars

C27_ApprovalPolicyTable ==
  probe.fn = "requiresApproval"
    => /\ probe.operationType \in {"READ", "EXEC"} => probe.result = FALSE
       /\ probe.operationType = "CREATE"
            => probe.result = config.requireApprovalForCreate
       /\ probe.operationType = "UPDATE"
            => probe.result = config.requireApprovalForUpdate
       /\ probe.operationType = "DELETE"
            => probe.result = config.requireApprovalForDelete
       /\ probe.operationType = "INSERT"
            => probe.result = config.requireApprovalForInsert
       /\ probe.operationType \notin
            {"READ", "EXEC", "CREATE", "UPDATE", "DELETE", "INSERT"}
            => probe.result = TRUE

\* requiresApproval has answered false for EXEC under a policy that sets
\* every approval flag.
C27_Witness ==
  /\ probe.fn = "requiresApproval"
  /\ probe.operationType = "EXEC"
  /\ config.requireApprovalForCreate /\ config.requireApprovalForUpdate
  /\ config.requireApprovalForDelete /\ config.requireApprovalForInsert
  /\ probe.result = FALSE

\* C26: every audit record a request has written and every preview,
\* approval-required or elicitation message it has rendered carries the
\* severity getOperationSeverity gives for the request's operation type.
C26_NoClassificationDrift ==
  \A r \in Slots :
    Began(r)
      => /\ \A i \in 1..Len(req[r].logged) :
              req[r].logged[i].severity = getOperationSeverity(req[r].kind)
         /\ \A severity \in req[r].shown :
              severity = getOperationSeverity(req[r].kind)

\* A delete_data request has asked the operator, who approved, and has
\* written its execution record: the elicitation message and the record
\* both carry a severity.
C26_Witness ==
  /\ req[1].pc = "done" /\ req[1].kind = "DELETE"
  /\ req[1].response.action = "accept" /\ req[1].site = "executed"
  /\ req[1].shown # {} /\ req[1].logged # <<>>

(***************************************************************************)
(* Version detection applied to drawn inputs: the initial state draws a    *)
(* ServerVersion or an outcome of SELECT @@VERSION, the actions apply      *)
(* determineCapabilities, parseVersion and detectServerCapabilities.       *)
(***************************************************************************)
Majors == 8..MaxMajor

ServerVersions ==
  {[major |-> major, minor |-> minor, build |-> build, revision |-> revision,
    fullVersion |-> ToString(major) \o "." \o ToString(minor) \o "." \o
                    ToString(build) \o "." \o ToString(revision),
    productName |-> "SQL Server"] :
     major \in Majors, minor \in {0, 50}, build \in {0, 2000},
     revision \in {0, 5}}

\* What a version string holds around its version number.
Prefixes ==
  {<<>>,
   <<Text("Microsoft SQL Server "), Digits("2019"), Text(" (RTM) - ")>>,
   <<Text("build "), Digits("5"), Dot, Digits("1"), Text(" of ")>>}

Suffixes == {<<>>, <<Text(" (X64)")>>}

\* Version numbers with four parts, and what the pattern does not match:
\* three parts, no number at all.
FourPart ==
  {<<Digits(ToString(major)), Dot, Digits(minor), Dot, Digits(build), Dot,
     Digits("5")>> :
     major \in Majors, minor \in {"0", "00", "50"}, build \in {"0", "2000"}}

NotFourPart ==
  {<<Digits(ToString(major)), Dot, Digits("0"), Dot, Digits("2000")>> :
     major \in Majors}
  \cup {<<>>, <<Text("Azure SQL Edge")>>}

VersionStrings ==
  {prefix \o core \o suffix :
     prefix \in Prefixes, core \in FourPart \cup NotFourPart,
     suffix \in Suffixes}

\* The outcomes of `await request.query('SELECT @@VERSION AS version')`.
ProbeOutcomes ==
  {[t |-> "throws"],
   [t |-> "returns", recordset |-> [t |-> "undefined"]],
   [t |-> "returns", recordset |-> [t |-> "array", rows |-> <<>>]],
   [t |-> "returns",
    recordset |-> [t |-> "array",
                   rows |-> <<[version |-> [t |-> "undefined"]]>>]]}
  \cup
  {[t |-> "returns",
    recordset |-> [t |-> "array",
                   rows |-> <<[version |-> [t |-> "string", runs |-> runs]]>>]] :
     runs \in VersionStrings}

DetectInit ==
  /\ StoreInit
  /\ config = DefaultConfig
  /\ elicit = FALSE
  /\ capabilities = NoCapabilities
  /\ logWritable = TRUE
  /\ probe \in {[fn |-> "none", kind |-> "version", input |-> version] :
                  version \in ServerVersions}
          \cup {[fn |-> "none", kind |-> "outcome", input |-> outcome] :
                  outcome \in ProbeOutcomes}
  /\ req = [r \in Slots |-> IdleReq]

ApplyDetermine ==
  /\ probe.fn = "none" /\ probe.kind = "version"
  /\ probe' = [fn |-> "determineCapabilities", kind |-> probe.kind,
               input |-> probe.input,
               result |-> determineCapabilities(probe.input)]
  /\ UNCHANGED <<storeVars, config, elicit, capabilities, logWritable, req>>

ApplyParse ==
  /\ probe.fn = "none" /\ probe.kind = "outcome"
  /\ probe.input.t = "returns" /\ probe.input.recordset.t = "array"
  /\ probe.input.recordset.rows # <<>>
  /\ probe.input.recordset.rows[1].version.t = "string"
  /\ probe' = [fn |-> "parseVersion", kind |-> probe.kind,
               input |-> probe.input,
               result |-> parseVersion(probe.input.recordset.rows[1].version.runs)]
  /\ UNCHANGED <<storeVars, config, elicit, capabilities, logWritable, req>>

ApplyDetect ==
  /\ probe.fn = "none" /\ probe.kind = "outcome"
  /\ probe' = [fn |-> "detectServerCapabilities", kind |-> probe.kind,
               input |-> probe.input,
               result |-> detectServerCapabilities(probe.input)]
  /\ UNCHANGED <<storeVars, config, elicit, capabilities, logWritable, req>>

DetectNext == ApplyDetermine \/ ApplyParse \/ ApplyDetect

SpecDetect == DetectInit /\ [][DetectNext]_vars

\* The flags of a capability set with the given threshold.
FlagsAt(capabilitySet, threshold) ==
  CASE threshold = 10 -> {capabilitySet.supportsBasicFeatures}
    [] threshold = 11 -> {capabilitySet.supportsSequences,
                          capabilitySet.supportsWindowFunctions,
                          capabilitySet.supportsColumnstoreIndexes,
                          capabilitySet.supportsOffset}
    [] threshold = 12 -> {capabilitySet.supportsInMemoryOLTP}
    [] threshold = 13 -> {capabilitySet.supportsDropIfExists,
                          capabilitySet.supportsJson,
                          capabilitySet.supportsTemporal,
                          capabilitySet.supportsAlwaysEncrypted}
    [] threshold = 14 -> {capabilitySet.supportsStringAgg,
                          capabilitySet.supportsStringAggActual,
                          capabilitySet.supportsGraphDb}
    [] threshold = 15 -> {capabilitySet.supportsUtf8}
    [] threshold = 16 -> {capabilitySet.supportsJsonExtensions}

\* C28: determineCapabilities sets every flag with threshold T (11 for
\* sequences, window functions and offset, 12 for in-memory OLTP, 13 for
\* drop-if-exists, json, temporal and always-encrypted, 14 for string-agg
\* and graph, 15 for utf8, 16 for json extensions) to true exactly when
\* major >= T, whatever minor, build and revision are.
C28_CapabilityThresholds ==
  probe.fn = "determineCapabilities"
    => \A threshold \in 11..16 :
         FlagsAt(probe.result, threshold) = {probe.input.major >= threshold}

\* determineCapabilities has been applied to version 13.50: the flags of
\* threshold 13 are set, those of threshold 14 are not.
C28_Witness ==
  /\ probe.fn = "determineCapabilities"
  /\ probe.input.major = 13 /\ probe.input.minor = 50
  /\ probe.result.supportsDropIfExists /\ ~probe.result.supportsGraphDb

\* The version string has four dot-separated numbers somewhere.
HasFourPartVersion(runs) ==
  \E i \in 1..Len(runs) :
    /\ i + 6 <= Len(runs)
    /\ \A k \in 0..6 : runs[i + k].t = IF k % 2 = 0 THEN "num" ELSE "dot"

\* The version of the server cannot be determined from the outcome of the
\* version query: it threw, returned no rows, or a string without a
\* four-part version.
Undetermined(outcome) ==
  \/ outcome.t = "throws"
  \/ outcome.recordset.t = "undefined"
  \/ /\ outcome.recordset.t = "array"
     /\ \/ outcome.recordset.rows = <<>>
        \/ outcome.recordset.rows[1].version.t = "undefined"
        \/ /\ outcome.recordset.rows[1].version.t = "string"
           /\ ~HasFourPartVersion(outcome.recordset.rows[1].version.runs)

\* C29: when the version of the server cannot be determined, capability
\* detection returns (it does not throw) the baseline set of major 10:
\* supportsBasicFeatures is true and every other flag false.
C29_FailToBaseline ==
  probe.fn = "detectServerCapabilities" /\ Undetermined(probe.input)
    => /\ probe.result.version.major = 10
       /\ FlagsAt(probe.result, 10) = {TRUE}
       /\ \A threshold \in 11..16 : FlagsAt(probe.result, threshold) = {FALSE}

\* Detection has run on a version string that names a major above 13 but
\* has only three parts.
C29_Witness ==
  /\ probe.fn = "detectServerCapabilities"
  /\ probe.input.t = "returns" /\ probe.input.recordset.t = "array"
  /\ probe.input.recordset.rows # <<>>
  /\ probe.input.recordset.rows[1].version.t = "string"
  /\ probe.input.recordset.rows[1].version.runs =
       <<Digits("15"), Dot, Digits("0"), Dot, Digits("2000")>>
  /\ probe.result.version.major = 10

\* The query drop_table is to build for request r: with IF EXISTS exactly
\* when ifExists was requested and the cached capabilities are those of a
\* server of major version 13 or above.
ExpectedDropQuery(r) ==
  IF /\ req[r].args.ifExists
     /\ capabilities.detected
     /\ capabilities.value.version.major >= 13
  THEN "DROP TABLE IF EXISTS [" \o req[r].args.tableName \o "]"
  ELSE "DROP TABLE [" \o req[r].args.tableName \o "]"

\* C30: a drop_table request builds DROP TABLE IF EXISTS [t] exactly when
\* ifExists was requested and the cached capabilities report
\* supportsDropIfExists (major >= 13), and DROP TABLE [t] otherwise, also
\* before detection; the preview record, the token and the statement sent
\* to the database all carry that query.
C30_CapabilityGatedDrop ==
  \A r \in Slots :
    Began(r) /\ req[r].kind = "DROP" /\ WellFormed(r)
      => /\ req[r].query = ExpectedDropQuery(r)
         /\ \A i \in 1..Len(req[r].logged) :
              req[r].logged[i].dryRun
                => req[r].logged[i].query = ExpectedDropQuery(r)
         /\ req[r].token # 0
              => issued[req[r].token].query = ExpectedDropQuery(r)
         /\ req[r].validation.valid
              => issued[req[r].confirmToken].query = ExpectedDropQuery(r)
         /\ req[r].ran => req[r].sent = ExpectedDropQuery(r)
         /\ req[r].site = "executed"
              => \A i \in ExecutionRecords(r) :
                   req[r].logged[i].query = ExpectedDropQuery(r)

\* On a server of major version 13 a drop with ifExists, confirmed by its
\* token, has sent DROP TABLE IF EXISTS.
C30_Witness ==
  /\ req[1].pc = "done" /\ req[1].kind = "DROP" /\ req[1].args.ifExists
  /\ capabilities.detected /\ capabilities.value.version.major = 13
  /\ req[1].validation.valid /\ req[1].site = "executed"
  /\ req[1].sent = "DROP TABLE IF EXISTS [Users]"

\* C31: every preview that carries a confirmToken has a message that tells
\* the caller to call the same tool again with that token, and does not
\* tell the caller to set ENABLE_DRY_RUN=false.
C31_PreviewNamesToken ==
  \A r \in Slots :
    req[r].pc = "done" /\ req[r].site = "preview" /\ req[r].token # 0
      => /\ \E i \in 1..(Len(req[r].message) - 1) :
              /\ req[r].message[i] = CallAgainWithToken
              /\ req[r].message[i + 1] = ToString(req[r].token)
         /\ \A i \in 1..Len(req[r].message) :
              req[r].message[i] # SetDryRunFalse

Unexpired(entries) == SelectSeq(entries, LAMBDA e : ~(now - e.createdAt > ttlMs))

\* The unexpired entries a step removes from the store.
EvictedByStep ==
  {i \in 1..Len(pending) :
     /\ ~(now - pending[i].createdAt > ttlMs)
     /\ \A j \in 1..Len(pending') : pending'[j].token # pending[i].token}

\* C33: oldest-first eviction. Whenever a create call evicts entries for
\* capacity, no evicted entry has a later createdAt than any entry that
\* remains pending, and an unexpired entry is evicted only when the pending
\* count exceeded MAX_PENDING at the time eviction ran.
C33_OldestFirstEviction ==
  [][nextToken' = nextToken + 1 =>
       /\ EvictedByStep # {} => Len(Unexpired(pending)) > MAX_PENDING
       /\ \A i \in EvictedByStep : \A j \in 1..Len(pending') :
            pending[i].createdAt <= pending'[j].createdAt]_vars

\* A create call has evicted the first token for capacity: it was never
\* validated and has not expired, and entries created after it remain.
C33_Witness ==
  /\ ret.op = "create" /\ Len(pending) = MAX_PENDING + 1
  /\ 1 \in Issued /\ ~issued[1].touched /\ ~IsPending(1)
  /\ ~(now - issued[1].createdAt > ttlMs)
  /\ \E j \in 1..Len(pending) : pending[j].createdAt > issued[1].createdAt

\* C34: expiry boundary. A token whose age equals the time-to-live exactly is
\* still accepted by validate and kept by cleanup; it counts as expired only
\* when its age is strictly greater, and validate and cleanup draw the line
\* at the same age. The first conjunct is about a validate call that carries
\* a pending token with the query and the parameters of its preview, the
\* second about the cleanup of a create call below the capacity.
C34_ExpiryBoundary ==
  [][/\ ( /\ ret'.op = "validate" /\ now' = now /\ nextToken' = nextToken
          /\ IsPending(ret'.token)
          /\ LET e == pending[IndexOf(pending, ret'.token)]
             IN  /\ hashString(ret'.query) = e.queryHash
                 /\ hashString(canonicalStringify(ret'.params)) = e.paramsHash )
          => LET age == now - pending[IndexOf(pending, ret'.token)].createdAt
             IN  /\ age <= ttlMs => ret'.valid
                 /\ age > ttlMs => ~ret'.valid /\ ret'.reason = ReasonExpired
     /\ ( nextToken' = nextToken + 1 /\ Len(pending) <= MAX_PENDING )
          => \A i \in 1..Len(pending) :
               (now - pending[i].createdAt <= ttlMs)
                 <=> \E j \in 1..Len(pending') :
                       pending'[j].token = pending[i].token]_vars

\* Token 1 has been accepted at the age of exactly the time-to-live, after
\* the cleanup of the create call for token 2 kept it at that same age.
C34_Witness ==
  /\ ret.op = "validate" /\ ret.valid /\ ret.token = 1
  /\ 2 \in Issued /\ issued[2].createdAt = now
  /\ now - issued[1].createdAt = ttlMs

(***************************************************************************)
(* SpecLive: concurrent delete_data requests, with and without the         *)
(* elicitation, under the assumption that every awaited call settles: the  *)
(* row-count query, the elicitation and the database call each return or   *)
(* throw.                                                                  *)
(***************************************************************************)
LiveArgs == [tableName |-> "Users", whereClause |-> "id = 1"]

LiveResponses ==
  {[action |-> "accept", approve |-> TRUE],
   [action |-> "decline", approve |-> FALSE]}

LiveInit ==
  /\ StoreInit
  /\ config = RaceConfig
  /\ elicit \in BOOLEAN
  /\ capabilities = NoCapabilities
  /\ logWritable = TRUE
  /\ probe = NoProbe
  /\ req = [r \in Slots |-> IdleReq]

\* A request without a token, in a slot that has not been used: the
\* operator is asked if the client supports elicitation, and a token is
\* issued if it does not.
LiveBegin ==
  \E r \in Slots :
    /\ req[r].pc = "idle"
    /\ nextToken = 1
    /\ Begin(r, "DELETE", LiveArgs, 0)

\* A request that carries the token issued before (each slot confirms once).
LiveConfirm ==
  \E r \in Slots :
    /\ nextToken = 2
    /\ req[r].confirmToken = 0
    /\ Begin(r, "DELETE", LiveArgs, 1)

LiveCountReturns == \E r \in Slots : CountReturns(r)

LiveElicitReturns ==
  \E r \in Slots : \E response \in LiveResponses : ElicitReturns(r, response)

LiveElicitThrows == \E r \in Slots : ElicitThrows(r)

LiveQueryReturns == \E r \in Slots : QueryReturns(r)

LiveQueryThrows ==
  \E r \in Slots : QueryThrows(r, CHOOSE error \in StoreErrors : TRUE)

LiveNext ==
  \/ LiveBegin
  \/ LiveConfirm
  \/ LiveCountReturns
  \/ LiveElicitReturns
  \/ LiveElicitThrows
  \/ LiveQueryReturns
  \/ LiveQueryThrows

\* Every promise a request awaits settles.
LiveFairness ==
  \A r \in Slots :
    /\ WF_vars(CountReturns(r))
    /\ WF_vars((\E response \in LiveResponses : ElicitReturns(r, response))
                 \/ ElicitThrows(r))
    /\ WF_vars(QueryReturns(r)
                 \/ QueryThrows(r, CHOOSE error \in StoreErrors : TRUE))

SpecLive == LiveInit /\ [][LiveNext]_vars /\ LiveFairness

\* The terminal outcome of a request that has returned: the site of its
\* return statement, with the declined preview and the error told apart.
Outcome(r) ==
  CASE req[r].site = "forbidden" -> "Forbidden"
    [] req[r].site = "approval_required" -> "ApprovalRequired"
    [] req[r].site = "preview" /\ req[r].declined -> "Declined"
    [] req[r].site = "preview" /\ ~req[r].declined -> "Preview"
    [] req[r].site = "confirmation_failed" -> "ConfirmationFailed"
    [] req[r].site = "executed" -> "Executed"
    [] req[r].site = "error" -> "ExecutionError"
    [] OTHER -> "none"

Ended(r) == req[r].pc = "done" /\ Outcome(r) # "none"

\* C35: every request ends. If each elicitation and each database call
\* eventually returns or throws, every request that has begun eventually
\* reaches one terminal outcome (forbidden, approval required, preview,
\* declined, confirmation failed, executed or execution error), whatever
\* the other requests do meanwhile.
C35_EveryRequestEnds ==
  \A r \in Slots : (req[r].pc \notin {"idle", "done"}) ~> Ended(r)

\* One request has ended as executed and another as a failed confirmation
\* while a third one is still waiting for its answer.
C35_Witness ==
  \E r1, r2, r3 \in Slots :
    /\ Ended(r1) /\ Outcome(r1) = "Executed"
    /\ Ended(r2) /\ Outcome(r2) = "ConfirmationFailed"
    /\ req[r3].pc \in {"awaitCount", "awaitElicit", "awaitExec"}

\* C36: no used entry is ever stored. In every reachable state every entry
\* of the pending map has used = false, so validate never answers 'Token has
\* already been used.', and a validate call that carries a token an earlier
\* call has accepted answers 'Token not found or already expired.'.
C36_NoUsedEntryStored ==
  /\ \A i \in 1..Len(pending) : ~pending[i].used
  /\ ret.op = "validate" => ret.reason # ReasonUsed
  /\ ( /\ Validated /\ ~ret.valid
       /\ issued[ret.token].okCount >= 1 )
       => ~ret.wasPending /\ ret.reason = ReasonNotFound

\* A token has been accepted once and then presented again.
C36_Witness ==
  /\ Validated /\ ~ret.valid
  /\ issued[ret.token].okCount = 1
  /\ SameQuery /\ SameParams
  /\ ret.reason = ReasonNotFound

RetryPreview ==
  \E r \in Slots :
    /\ nextToken <= MaxTokens
    /\ Begin(r, "DELETE", LiveArgs, 0)

\* A request that carries a token issued before, in a slot that has not
\* carried one yet.
RetryConfirm ==
  \E r \in Slots : \E t \in 1..(nextToken - 1) :
    /\ req[r].confirmToken = 0
    /\ Begin(r, "DELETE", LiveArgs, t)

RetryNext ==
  \/ RetryPreview
  \/ RetryConfirm
  \/ RaceCountReturns
  \/ RaceQueryReturns
  \/ RaceQueryThrows

SpecRetry == RaceInit /\ [][RetryNext]_vars

\* The request in slot r was confirmed by token t, was sent to the database
\* and failed there.
FailedAfterToken(r, t) ==
  /\ req[r].confirmToken = t /\ t # 0
  /\ req[r].validation.called /\ req[r].validation.valid
  /\ req[r].ran
  /\ req[r].pc = "done" /\ req[r].site = "error"

\* C38: a token is not restored after a failed execution. Once the database
\* call of a request confirmed by token t has failed, t is not pending; the
\* same request submitted again with t ends in a failed confirmation and
\* sends nothing to the database; a token issued by a later preview is
\* still pending until it is presented.
C38_TokenNotRestored ==
  [][\A r1 \in Slots : \A t \in Issued :
       FailedAfterToken(r1, t) =>
         /\ ~IsPending(t)
         /\ \A j \in 1..Len(pending') : pending'[j].token # t
         /\ \A r2 \in Slots \ {r1} :
              ( /\ req'[r2] # req[r2]
                /\ req'[r2].confirmToken = t
                /\ req'[r2].validation.called )
                => /\ ~req'[r2].validation.valid
                   /\ req'[r2].pc = "done"
                   /\ req'[r2].site = "confirmation_failed"
                   /\ ~req'[r2].ran
                   /\ req'[r2].sent = IdleReq.sent
         /\ \A r2 \in Slots \ {r1} :
              ( /\ req'[r2] # req[r2]
                /\ req'[r2].pc = "done" /\ req'[r2].site = "preview"
                /\ req'[r2].token # 0 )
                => /\ req'[r2].token # t
                   /\ \E j \in 1..Len(pending') :
                        pending'[j].token = req'[r2].token]_vars

\* The database call of the request confirmed by token 1 has failed, the
\* same request with token 1 has been refused, and the request confirmed by
\* the token of a later preview has been executed.
C38_Witness ==
  \E r1, r2, r3 \in Slots :
    /\ FailedAfterToken(r1, 1)
    /\ req[r2].confirmToken = 1 /\ req[r2].pc = "done"
    /\ req[r2].site = "confirmation_failed" /\ ~req[r2].ran
    /\ req[r3].confirmToken = 2 /\ req[r3].pc = "done"
    /\ req[r3].site = "executed"

(***************************************************************************)
(* SpecOrder: update_data requests whose updates object lists the same     *)
(* two columns with the same values in either order, previewed once and    *)
(* confirmed with the token of that preview.                               *)
(***************************************************************************)
OrderUpdates ==
  {Obj(<<<<"a", Num(1)>>, <<"b", Num(2)>>>>),
   Obj(<<<<"b", Num(2)>>, <<"a", Num(1)>>>>)}

OrderArgs ==
  {[tableName |-> "Users", updates |-> u, whereClause |-> "id = 1"] :
     u \in OrderUpdates}

\* The preview: a request without a token.
OrderPreview ==
  \E args \in OrderArgs :
    /\ nextToken = 1
    /\ Begin(1, "UPDATE", args, 0)

\* The confirmation: a request with the token of the preview.
OrderConfirm ==
  \E r \in Slots : \E args \in OrderArgs :
    /\ nextToken = 2
    /\ req[r].confirmToken = 0
    /\ Begin(r, "UPDATE", args, 1)

OrderNext ==
  \/ OrderPreview
  \/ OrderConfirm
  \/ RaceCountReturns
  \/ RaceQueryReturns
  \/ RaceQueryThrows
  \/ RaceTick

SpecOrder == RaceInit /\ [][OrderNext]_vars

\* C39: key order at tool level. For update_data, a token issued by a
\* preview for (tableName, updates, whereClause) is accepted, and the update
\* is sent to the database, when the request is submitted again with that
\* token and the same values, whatever the order of the keys of updates.
\* (The token is still pending and unexpired when it is presented.)
C39_KeyOrderAtToolLevel ==
  \A r \in Slots :
    ( /\ req[r].kind = "UPDATE"
      /\ req[r].confirmToken \in Issued
      /\ req[r].validation.called /\ req[r].validation.live
      /\ SameValue(req[r].params, issued[req[r].confirmToken].params) )
      => /\ req[r].validation.valid
         /\ req[r].ran

\* C40: execution records mean executions. Every audit record with dryRun
\* false is written by a request that reached the database call; a request
\* rejected before it by input validation (invalid table name, empty WHERE
\* clause, empty column list), by policy or by a failed confirmation writes
\* no audit record with dryRun false.
C40_ExecutionRecordsMeanExecutions ==
  \A r \in Slots :
    /\ ExecutionRecords(r) # {} => req[r].ran /\ req[r].sent # IdleReq.sent
    /\ ( /\ req[r].pc = "done"
         /\ \/ InputThrows(req[r].kind, req[r].args)
            \/ InputRefused(req[r].kind, req[r].args)
            \/ req[r].site \in {"forbidden", "approval_required",
                                "confirmation_failed"} )
         => ExecutionRecords(r) = {}

====
